---- MODULE Spec2Model ----
(***************************************************************************)
(* Check-in event management, modelled from the TypeScript sources: the    *)
(* passport mission-progress evaluator (PassportView.calculateProgress),   *)
(* the analytics of SummaryGenerator (fetchData and its polling,           *)
(* filteredLogs, the aggregations), ActivitiesTab, the admin's LogsTab and *)
(* LiveMonitorTab.                                                         *)
(*                                                                         *)
(* Strings that the code only compares for equality are TLA+ strings.      *)
(* A Timestamp, which the code takes prefixes of and parses, is a sequence *)
(* of tokens: <<"2024","01","01","T","08">> is "2024-01-01T08:00:00" and a *)
(* trailing "Z" token marks a UTC timestamp. A mission date is the three   *)
(* date tokens. A missing or empty string field is "".                     *)
(***************************************************************************)
EXTENDS Integers, Sequences, FiniteSets, TLC

VARIABLES
    \* PassportView
    userLogs,        \* useState<CheckInLog[]>([])
    loading,         \* useState(true)
    activities,      \* data.activities, the registry calculateProgress reads
    \* SummaryGenerator
    logs,            \* useState<CheckInLog[]>([])
    allUsers,        \* useState<User[]>([])
    sgLoading,       \* useState(true)
    selectedCluster, \* useState('All')
    timeFilter,      \* useState('All')
    isAutoRefresh,   \* useState(false)
    isAdmin,         \* user?.Role === 'admin' || user?.level === 'admin'
    schools,         \* data.schools
    tzOffset,        \* the browser's offset from UTC in hours, read by getHours
    fgPending,       \* fetchData() calls awaiting their response
    bgPending,       \* fetchData(true) calls awaiting their response
    warned,          \* console.warn("Could not fetch detailed data") has run
    interval,        \* the effect's setInterval timer is set
    overtaken,       \* pending calls made before a call whose logs are stored
    lastSettled,     \* what the fetchData call that settled last brought
    \* the data prop that SummaryGenerator and ActivitiesTab read
    checkInActivities, \* data.checkInActivities
    checkInLocations,  \* data.checkInLocations
    \* ActivitiesTab
    now,             \* the clock that `new Date()` reads
    saveCalls,       \* saveActivity calls that handleToggleStatus has made
    lastConfirm,     \* the answer to the last confirm() of handleToggleStatus
    mountedActs,     \* data.checkInActivities as the tab was mounted with
    \* LogsTab
    tabLogs,         \* useState<CheckInLog[]>([])
    isLoadingLogs,   \* useState(false), true from the mount effect on
    searchLogsQuery, \* useState(initialSearchQuery)
    dateFilter,      \* useState('')
    activityFilter,  \* useState('All')
    currentPage,     \* useState(1)
    deleteModal,     \* useState({ isOpen: false, id: '' })
    isDeleting,      \* useState(false)
    logsFetch,       \* the promise of the mount effect's getCheckInLogs()
    deletePending,   \* a deleteCheckInLog call awaits its response
    deletes,         \* deleteCheckInLog calls made so far
    \* LiveMonitorTab
    recentLogs,      \* useState<CheckInLog[]>([])
    stats,           \* useState({ total: 0, today: 0, activeActivities: 0 })
    lastLogIdRef,    \* useRef(null); 0 is null
    monitorMounted,  \* the tab is mounted
    effect,          \* the number of the last run of the polling effect
    timers,          \* the effect runs whose setInterval timer is set
    calls,           \* the fetchLogs calls awaiting getCheckInLogs
    lastFetched      \* the getCheckInLogs call of the monitor that resolved last

passportVars == <<userLogs, loading, activities>>
summaryVars == <<logs, allUsers, sgLoading, selectedCluster, timeFilter,
                 isAutoRefresh, isAdmin, schools, tzOffset, fgPending, bgPending,
                 warned, interval, overtaken, lastSettled>>
tabVars == <<checkInActivities, checkInLocations, now, saveCalls, lastConfirm,
            mountedActs>>
logsTabVars == <<tabLogs, isLoadingLogs, searchLogsQuery, dateFilter,
                 activityFilter, currentPage, deleteModal, isDeleting, logsFetch,
                 deletePending, deletes>>
monitorVars == <<recentLogs, stats, lastLogIdRef, monitorMounted, effect, timers,
                 calls, lastFetched>>
vars == <<userLogs, loading, activities, logs, allUsers, sgLoading,
          selectedCluster, timeFilter, isAutoRefresh, isAdmin, schools, tzOffset,
          fgPending, bgPending, warned, interval, overtaken, lastSettled,
          checkInActivities, checkInLocations, now, saveCalls, lastConfirm,
          mountedActs, tabLogs, isLoadingLogs, searchLogsQuery, dateFilter,
          activityFilter, currentPage, deleteModal, isDeleting, logsFetch,
          deletePending, deletes, recentLogs, stats, lastLogIdRef, monitorMounted,
          effect, timers, calls, lastFetched>>

----------------------------------------------------------------------------
(* Bounds of the model *)

MaxLogs == 2
MaxReqs == 2
MaxTarget == 1
MaxSummaryLogs == 2
MaxInFlight == 1
MaxStatLogs == 3
MaxNow == 3
MaxSaves == 3
MaxDeletes == 1
MaxEffects == 2
MaxMonitorCalls == 2

----------------------------------------------------------------------------
(* Generic helpers for the array methods the code uses *)

SeqsUpTo(S, n) == UNION {[1..k -> S] : k \in 0..n}

\* Array.prototype.find, hits being the positions whose element satisfies the
\* callback: <<x>> for the first such element x, and <<>> for `undefined`
Find(s, hits) ==
    IF hits = {} THEN <<>>
    ELSE <<s[CHOOSE i \in hits : \A j \in hits : i <= j]>>

\* String.prototype.startsWith on token sequences
StartsWith(s, prefix) ==
    /\ Len(prefix) <= Len(s)
    /\ \A i \in 1..Len(prefix) : s[i] = prefix[i]

----------------------------------------------------------------------------
(* Data model *)

Log(uid, aid, ts) ==
    [UserID |-> uid, ActivityID |-> aid, Timestamp |-> ts]

Dates == {<<"2024", "01", "01">>, <<"2024", "01", "02">>}

ActivityIDs == {"a1", "a2"}

\* what getUserCheckInHistory can return: the history of the one user
PassportLogs ==
    {Log("u1", a, d \o <<"T", "08">>) : a \in ActivityIDs, d \in Dates}

Activity(id, cat) == [id |-> id, category |-> cat]

\* data.activities: empty, partial, and complete with a repeated id
ActivityRegistries ==
    { <<>>,
      <<Activity("a1", "c1")>>,
      <<Activity("a1", "c2"), Activity("a2", "c1"), Activity("a1", "c1")>> }

ReqTypes == {"specific_activity", "total_count", "category_count"}

Requirement(type, targetId, targetValue) ==
    [type |-> type, targetId |-> targetId, targetValue |-> targetValue]

ReqKinds ==
    {Requirement("specific_activity", "a1", 0)}
    \cup {Requirement("total_count", "", t) : t \in 0..MaxTarget}
    \cup {Requirement("category_count", "c1", t) : t \in 0..MaxTarget}
    \cup {Requirement("checkin_streak", "a1", 0)}

\* PassportMission: requirement i carries id i
Mission(date, reqs) ==
    [date |-> date,
     requirements |->
        [i \in 1..Len(reqs) |->
            [id |-> i, type |-> reqs[i].type, targetId |-> reqs[i].targetId,
             targetValue |-> reqs[i].targetValue]]]

Missions == {Mission(d, rs) : d \in Dates, rs \in SeqsUpTo(ReqKinds, MaxReqs)}

\* `undefined`, what missions.find yields for a date without a mission
NoMission == [date |-> <<>>, requirements |-> <<>>, missing |-> TRUE]

----------------------------------------------------------------------------
(* PassportView.calculateProgress *)

\* mutant: the date filter dropped, every log of the user counts
DailyLogs_NoFilter(ulogs, missionDate) == ulogs

\* userLogs.filter(log => log.Timestamp.startsWith(missionDate))
DailyLogs(ulogs, missionDate) ==
    SelectSeq(ulogs, LAMBDA log : StartsWith(log.Timestamp, missionDate))

\* mutant: currentVal counts the matching logs instead of being 1
SpecificActivity_Counting(req, dailyLogs) ==
    LET n == Len(SelectSeq(dailyLogs, LAMBDA l : l.ActivityID = req.targetId))
    IN  [achieved |-> n > 0, currentVal |-> n]

\* dailyLogs.find(l => l.ActivityID === req.targetId)
SpecificActivity(req, dailyLogs) ==
    LET found == Find(dailyLogs, {i \in 1..Len(dailyLogs) :
                                        dailyLogs[i].ActivityID = req.targetId})
    IN  IF found # <<>> THEN [achieved |-> TRUE, currentVal |-> 1]
        ELSE [achieved |-> FALSE, currentVal |-> 0]

\* mutant: achieved only with exactly targetValue logs
TotalCount_Exact(req, dailyLogs) ==
    LET currentVal == Len(dailyLogs)
    IN  [achieved |-> currentVal = req.targetValue, currentVal |-> currentVal]

\* mutant: a strict comparison, so exactly T logs is not achieved
TotalCount_Strict(req, dailyLogs) ==
    LET currentVal == Len(dailyLogs)
    IN  [achieved |-> currentVal > req.targetValue, currentVal |-> currentVal]

\* currentVal = dailyLogs.length; achieved when currentVal >= targetValue
TotalCount(req, dailyLogs) ==
    LET currentVal == Len(dailyLogs)
    IN  [achieved |-> currentVal >= req.targetValue, currentVal |-> currentVal]

\* mutant: a log whose activity is not registered counts for every category
CategoryMatches_MissingCounts(registry, l, req) ==
    LET act == Find(registry, {i \in 1..Len(registry) : registry[i].id = l.ActivityID})
    IN  act = <<>> \/ act[1].category = req.targetId

\* act?.category === req.targetId, act = data.activities.find(a => a.id === l.ActivityID)
CategoryMatches(registry, l, req) ==
    LET act == Find(registry, {i \in 1..Len(registry) : registry[i].id = l.ActivityID})
    IN  act # <<>> /\ act[1].category = req.targetId

\* mutant: any registry entry with the log's ActivityID decides, not the first
CategoryCount_AnyEntry(req, dailyLogs, registry) ==
    LET catLogs == SelectSeq(dailyLogs, LAMBDA l :
                       \E j \in 1..Len(registry) :
                           /\ registry[j].id = l.ActivityID
                           /\ registry[j].category = req.targetId)
        currentVal == Len(catLogs)
    IN  [achieved |-> currentVal >= req.targetValue, currentVal |-> currentVal]

CategoryCount(req, dailyLogs, registry) ==
    LET catLogs == SelectSeq(dailyLogs, LAMBDA l : CategoryMatches(registry, l, req))
        currentVal == Len(catLogs)
    IN  [achieved |-> currentVal >= req.targetValue, currentVal |-> currentVal]

\* mutant: a final else instead of the last else-if
EvalRequirement_FinalElse(req, dailyLogs, registry) ==
    IF req.type = "specific_activity" THEN SpecificActivity(req, dailyLogs)
    ELSE IF req.type = "category_count" THEN CategoryCount(req, dailyLogs, registry)
    ELSE TotalCount(req, dailyLogs)

\* the body of mission.requirements.map(req => ...)
EvalRequirement(req, dailyLogs, registry) ==
    IF req.type = "specific_activity" THEN SpecificActivity(req, dailyLogs)
    ELSE IF req.type = "total_count" THEN TotalCount(req, dailyLogs)
    ELSE IF req.type = "category_count" THEN CategoryCount(req, dailyLogs, registry)
    ELSE [achieved |-> FALSE, currentVal |-> 0]

\* return { ...req, achieved, currentVal }
ReqStatusEntry(req, ev) ==
    [id |-> req.id, type |-> req.type, targetId |-> req.targetId,
     targetValue |-> req.targetValue,
     achieved |-> ev.achieved, currentVal |-> ev.currentVal]

\* mutant: the statuses come out in reverse order
ReqStatus_Reversed(reqs, dailyLogs, registry) ==
    [i \in 1..Len(reqs) |->
        ReqStatusEntry(reqs[Len(reqs) + 1 - i],
                       EvalRequirement(reqs[Len(reqs) + 1 - i], dailyLogs, registry))]

ReqStatus(reqs, dailyLogs, registry) ==
    [i \in 1..Len(reqs) |->
        ReqStatusEntry(reqs[i], EvalRequirement(reqs[i], dailyLogs, registry))]

\* mutant: the total > 0 guard dropped
IsComplete_NoGuard(completedReqs, total) == completedReqs = total

IsComplete(completedReqs, total) == completedReqs = total /\ total > 0

CalcProgress(mission, ulogs, registry) ==
    IF "missing" \in DOMAIN mission
    THEN [progress |-> 0, total |-> 0, isComplete |-> FALSE, reqStatus |-> <<>>]
    ELSE LET dailyLogs == DailyLogs(ulogs, mission.date)
             reqStatus == ReqStatus(mission.requirements, dailyLogs, registry)
             completedReqs ==
                 Cardinality({i \in 1..Len(reqStatus) : reqStatus[i].achieved})
         IN  [progress |-> completedReqs,
              total |-> Len(mission.requirements),
              isComplete |-> IsComplete(completedReqs, Len(mission.requirements)),
              reqStatus |-> reqStatus]

\* the closure the component renders with
calculateProgress(mission) == CalcProgress(mission, userLogs, activities)

----------------------------------------------------------------------------
(* PassportView: state and effects *)

PassportInit ==
    /\ userLogs = <<>>
    /\ loading = TRUE
    /\ activities \in ActivityRegistries

\* init(): getUserCheckInHistory resolved; setUserLogs(logs); setLoading(false)
HistoryResolved ==
    /\ loading = TRUE
    /\ \E ls \in SeqsUpTo(PassportLogs, MaxLogs) : userLogs' = ls
    /\ loading' = FALSE
    /\ UNCHANGED activities
    /\ UNCHANGED summaryVars
    /\ UNCHANGED tabVars
    /\ UNCHANGED <<logsTabVars, monitorVars>>

\* init(): the promise rejected; catch logs the error; setLoading(false)
HistoryRejected ==
    /\ loading = TRUE
    /\ loading' = FALSE
    /\ UNCHANGED <<userLogs, activities>>
    /\ UNCHANGED summaryVars
    /\ UNCHANGED tabVars
    /\ UNCHANGED <<logsTabVars, monitorVars>>

\* the effect runs again when user.userid changes: setLoading(true) and a new fetch
UserChanged ==
    /\ loading = FALSE
    /\ loading' = TRUE
    /\ UNCHANGED <<userLogs, activities>>
    /\ UNCHANGED summaryVars
    /\ UNCHANGED tabVars
    /\ UNCHANGED <<logsTabVars, monitorVars>>

PassportNext ==
    \/ HistoryResolved
    \/ HistoryRejected
    \/ UserChanged

----------------------------------------------------------------------------
(* SummaryGenerator: data *)

User(uid, cluster, schoolId) ==
    [UserID |-> uid, Cluster |-> cluster, SchoolID |-> schoolId]

School(id, name, cluster) ==
    [SchoolID |-> id, SchoolName |-> name, SchoolCluster |-> cluster]

\* data.clusters: the ClusterID values the cluster select offers
ClusterIDs == {"cA", "cB"}

TimeFilters == {"All", "Morning", "Afternoon"}

\* what getAllUsers can return: nobody; u1 known through its school only and
\* u2 missing; u1 with a cluster of its own and a school of another cluster, u2
\* naming its school by name; an unknown school, a repeated UserID and a user
\* with neither cluster nor school
UserLists ==
    { <<>>,
      <<User("u1", "", "s1")>>,
      <<User("u1", "cA", "s2"), User("u2", "", "N2")>>,
      <<User("u1", "", "s9"), User("u1", "cA", ""), User("u2", "", "")>> }

\* data.schools: two schools; a school without cluster ahead of a second
\* entry with the same SchoolID (no school is registered as "s9")
SchoolRegistries ==
    { <<School("s1", "N1", "cA"), School("s2", "N2", "cB")>>,
      <<School("s1", "N1", ""), School("s1", "N1b", "cA"), School("s2", "N2", "cB")>> }

\* a local timestamp carries no zone token, a UTC timestamp ends in "Z"
LocalEleven == <<"2024", "01", "01", "T", "11">>

UtcFive == <<"2024", "01", "01", "T", "05", "Z">>

\* the check-ins getCheckInLogs can return
SummaryLogs ==
    {Log("u1", "a1", LocalEleven), Log("u1", "a2", UtcFive), Log("u2", "a1", UtcFive)}

\* UTC (0) and Asia/Bangkok (+7)
TzOffsets == {0, 7}

\* a response is <<value>>, or <<>> when the API yields null, which the
\* code's `if (logsRes)` / `if (usersRes)` tests reject
LogResponses == {<<>>} \cup {<<ls>> : ls \in SeqsUpTo(SummaryLogs, MaxSummaryLogs)}

UserResponses == {<<>>} \cup {<<us>> : us \in UserLists}

----------------------------------------------------------------------------
(* SummaryGenerator.filteredLogs *)

HourTokens ==
    <<"00", "01", "02", "03", "04", "05", "06", "07", "08", "09", "10", "11",
      "12", "13", "14", "15", "16", "17", "18", "19", "20", "21", "22", "23">>

\* new Date(log.Timestamp).getHours(): the hour field, moved to local time
\* when the timestamp is a UTC one
getHours(ts, tz) ==
    LET h == (CHOOSE n \in 1..24 : HourTokens[n] = ts[5]) - 1
    IN  IF Len(ts) >= 6 /\ ts[6] = "Z" THEN (h + tz) % 24 ELSE h

\* mutant: the school's cluster is preferred to the user's own
UserCluster_SchoolFirst(log, users, schs) ==
    LET u == Find(users, {i \in 1..Len(users) : users[i].UserID = log.UserID})
    IN  IF u = <<>> THEN ""
        ELSE LET s == Find(schs, {i \in 1..Len(schs) :
                                    \/ schs[i].SchoolID = u[1].SchoolID
                                    \/ schs[i].SchoolName = u[1].SchoolID})
             IN  IF u[1].SchoolID # "" /\ s # <<>> THEN s[1].SchoolCluster
                 ELSE u[1].Cluster

\* userCluster: u.Cluster, or the cluster of the user's school
UserCluster(log, users, schs) ==
    LET u == Find(users, {i \in 1..Len(users) : users[i].UserID = log.UserID})
    IN  IF u = <<>> THEN ""
        ELSE IF u[1].Cluster = "" /\ u[1].SchoolID # ""
             THEN LET s == Find(schs, {i \in 1..Len(schs) :
                                         \/ schs[i].SchoolID = u[1].SchoolID
                                         \/ schs[i].SchoolName = u[1].SchoolID})
                  IN  IF s # <<>> THEN s[1].SchoolCluster ELSE ""
             ELSE u[1].Cluster

\* mutant: the lookup runs under "All" too
PassesCluster_NoAllGuard(log, users, sc, schs) ==
    UserCluster(log, users, schs) = sc

\* 1. Cluster Filter
PassesCluster(log, users, sc, schs) ==
    sc # "All" => UserCluster(log, users, schs) = sc

\* mutant: noon counts as morning
PassesTime_NoonIsMorning(log, tf, tz) ==
    tf # "All" =>
        LET hour == getHours(log.Timestamp, tz)
        IN  /\ ~(tf = "Morning" /\ hour > 12)
            /\ ~(tf = "Afternoon" /\ hour <= 12)

\* mutant: "Afternoon" starts after noon, so hour 12 is in neither half
PassesTime_NoonDropped(log, tf, tz) ==
    tf # "All" =>
        LET hour == getHours(log.Timestamp, tz)
        IN  /\ ~(tf = "Morning" /\ hour >= 12)
            /\ ~(tf = "Afternoon" /\ hour <= 12)

\* 2. Time Filter
PassesTime(log, tf, tz) ==
    tf # "All" =>
        LET hour == getHours(log.Timestamp, tz)
        IN  /\ ~(tf = "Morning" /\ hour >= 12)
            /\ ~(tf = "Afternoon" /\ hour < 12)

FilteredLogs(ls, users, sc, tf, schs, tz) ==
    SelectSeq(ls, LAMBDA log : PassesCluster(log, users, sc, schs)
                               /\ PassesTime(log, tf, tz))

\* the memo the aggregations read
filteredLogs ==
    FilteredLogs(logs, allUsers, selectedCluster, timeFilter, schools, tzOffset)

----------------------------------------------------------------------------
(* SummaryGenerator: state, handlers and effects *)

\* no fetchData call has settled yet
NoneSettled == [logsRes |-> <<>>, stale |-> FALSE]

\* the state after construction, the mount effect's fetchData() in flight
SummaryInit ==
    /\ logs = <<>>
    /\ allUsers = <<>>
    /\ sgLoading = TRUE
    /\ selectedCluster = "All"
    /\ timeFilter = "All"
    /\ isAutoRefresh = FALSE
    /\ isAdmin \in BOOLEAN
    /\ schools \in SchoolRegistries
    /\ tzOffset \in TzOffsets
    /\ fgPending = 1
    /\ bgPending = 0
    /\ warned = FALSE
    /\ interval = FALSE
    /\ overtaken = 0
    /\ lastSettled = NoneSettled

\* if (logsRes) setLogs(logsRes); if (usersRes) setAllUsers(usersRes)
ApplyResponse(logsRes, usersRes) ==
    /\ logs' = IF logsRes # <<>> THEN logsRes[1] ELSE logs
    /\ allUsers' = IF usersRes # <<>> THEN usersRes[1] ELSE allUsers

\* the bookkeeping of call order when the q-th oldest pending call settles
\* with the logs response logsRes, <<>> when it brought none or failed.  The
\* calls made before a call whose logs response arrived are the `overtaken`
\* oldest pending ones; a response is stale when it arrives for such a call.
Settle(q, logsRes) ==
    /\ overtaken' = IF q <= overtaken THEN overtaken - 1
                    ELSE IF logsRes # <<>> THEN q - 1
                    ELSE overtaken
    /\ lastSettled' = [logsRes |-> logsRes,
                       stale |-> logsRes # <<>> /\ q <= overtaken]

\* mutant: the response of an overtaken call is dropped
FetchResolvedWith_Sequenced(logsRes, usersRes) ==
    /\ fgPending > 0
    /\ IF overtaken >= 1
       THEN UNCHANGED <<logs, allUsers>>
       ELSE ApplyResponse(logsRes, usersRes)
    /\ Settle(1, logsRes)
    /\ fgPending' = fgPending - 1
    /\ sgLoading' = FALSE
    /\ UNCHANGED <<selectedCluster, timeFilter, isAutoRefresh, isAdmin, schools,
                   tzOffset, bgPending, warned, interval>>
    /\ UNCHANGED passportVars
    /\ UNCHANGED tabVars
    /\ UNCHANGED <<logsTabVars, monitorVars>>

\* fetchData(): both promises resolved with logsRes and usersRes; finally
\* setLoading(false).  The mount's call is the oldest pending one.
FetchResolvedWith(logsRes, usersRes) ==
    /\ fgPending > 0
    /\ ApplyResponse(logsRes, usersRes)
    /\ Settle(1, logsRes)
    /\ fgPending' = fgPending - 1
    /\ sgLoading' = FALSE
    /\ UNCHANGED <<selectedCluster, timeFilter, isAutoRefresh, isAdmin, schools,
                   tzOffset, bgPending, warned, interval>>
    /\ UNCHANGED passportVars
    /\ UNCHANGED tabVars
    /\ UNCHANGED <<logsTabVars, monitorVars>>

FetchResolved ==
    \E logsRes \in LogResponses, usersRes \in UserResponses :
        FetchResolvedWith(logsRes, usersRes)

\* fetchData(): a promise rejected; console.warn; finally setLoading(false)
FetchRejected ==
    /\ fgPending > 0
    /\ Settle(1, <<>>)
    /\ fgPending' = fgPending - 1
    /\ sgLoading' = FALSE
    /\ UNCHANGED <<logs, allUsers, selectedCluster, timeFilter, isAutoRefresh,
                   isAdmin, schools, tzOffset, bgPending, interval>>
    /\ warned' = TRUE
    /\ UNCHANGED passportVars
    /\ UNCHANGED tabVars
    /\ UNCHANGED <<logsTabVars, monitorVars>>

\* the interval callback: fetchData(true)
PollTick ==
    /\ interval
    /\ bgPending < MaxInFlight
    /\ bgPending' = bgPending + 1
    /\ UNCHANGED <<logs, allUsers, sgLoading, selectedCluster, timeFilter,
                   isAutoRefresh, isAdmin, schools, tzOffset, fgPending, warned,
                   interval, overtaken, lastSettled>>
    /\ UNCHANGED passportVars
    /\ UNCHANGED tabVars
    /\ UNCHANGED <<logsTabVars, monitorVars>>

\* fetchData(true), the p-th oldest pending poll: both promises resolved with
\* logsRes and usersRes; loading is not touched
PollResolvedWith(p, logsRes, usersRes) ==
    /\ p \in 1..bgPending
    /\ ApplyResponse(logsRes, usersRes)
    /\ Settle(fgPending + p, logsRes)
    /\ bgPending' = bgPending - 1
    /\ UNCHANGED <<sgLoading, selectedCluster, timeFilter, isAutoRefresh, isAdmin,
                   schools, tzOffset, fgPending, warned, interval>>
    /\ UNCHANGED passportVars
    /\ UNCHANGED tabVars
    /\ UNCHANGED <<logsTabVars, monitorVars>>

PollResolved ==
    \E p \in 1..bgPending, logsRes \in LogResponses, usersRes \in UserResponses :
        PollResolvedWith(p, logsRes, usersRes)

\* mutant: the two requests awaited one after the other, so the logs that
\* arrived are stored before the users request fails
PollRejected_LogsApplied ==
    /\ \E p \in 1..bgPending, logsRes \in LogResponses :
        /\ ApplyResponse(logsRes, <<>>)
        /\ Settle(fgPending + p, logsRes)
    /\ bgPending' = bgPending - 1
    /\ UNCHANGED <<sgLoading, selectedCluster, timeFilter, isAutoRefresh, isAdmin,
                   schools, tzOffset, fgPending, interval>>
    /\ warned' = TRUE
    /\ UNCHANGED passportVars
    /\ UNCHANGED tabVars
    /\ UNCHANGED <<logsTabVars, monitorVars>>

\* fetchData(true): a promise rejected; console.warn, and nothing else
PollRejected ==
    /\ \E p \in 1..bgPending : Settle(fgPending + p, <<>>)
    /\ bgPending' = bgPending - 1
    /\ UNCHANGED <<logs, allUsers, sgLoading, selectedCluster, timeFilter,
                   isAutoRefresh, isAdmin, schools, tzOffset, fgPending, interval>>
    /\ warned' = TRUE
    /\ UNCHANGED passportVars
    /\ UNCHANGED tabVars
    /\ UNCHANGED <<logsTabVars, monitorVars>>

\* the effect on [isAutoRefresh, isAdmin] after a render with the values on
\* and admin: its cleanup clears the interval of the render before, its body
\* sets one when both hold
IntervalEffect(on, admin) == interval' = (on /\ admin)

\* mutant: the effect returns no cleanup, an interval once set stays
ToggleAutoRefresh_NoCleanup ==
    /\ isAdmin
    /\ isAutoRefresh' = ~isAutoRefresh
    /\ interval' = (interval \/ (isAutoRefresh' /\ isAdmin))
    /\ UNCHANGED <<logs, allUsers, sgLoading, selectedCluster, timeFilter, isAdmin,
                   schools, tzOffset, fgPending, bgPending, warned, overtaken,
                   lastSettled>>
    /\ UNCHANGED passportVars
    /\ UNCHANGED tabVars
    /\ UNCHANGED <<logsTabVars, monitorVars>>

\* the auto-refresh button, rendered for an admin only:
\* setIsAutoRefresh(!isAutoRefresh), then the interval effect
ToggleAutoRefresh ==
    /\ isAdmin
    /\ isAutoRefresh' = ~isAutoRefresh
    /\ IntervalEffect(isAutoRefresh', isAdmin)
    /\ UNCHANGED <<logs, allUsers, sgLoading, selectedCluster, timeFilter, isAdmin,
                   schools, tzOffset, fgPending, bgPending, warned, overtaken,
                   lastSettled>>
    /\ UNCHANGED passportVars
    /\ UNCHANGED tabVars
    /\ UNCHANGED <<logsTabVars, monitorVars>>

\* the user prop changes between an administrator and another user, then the
\* interval effect
SetUser ==
    /\ isAdmin' = ~isAdmin
    /\ IntervalEffect(isAutoRefresh, isAdmin')
    /\ UNCHANGED <<logs, allUsers, sgLoading, selectedCluster, timeFilter,
                   isAutoRefresh, schools, tzOffset, fgPending, bgPending, warned,
                   overtaken, lastSettled>>
    /\ UNCHANGED passportVars
    /\ UNCHANGED tabVars
    /\ UNCHANGED <<logsTabVars, monitorVars>>

\* onChange of the cluster select
SetSelectedCluster ==
    /\ \E val \in {"All"} \cup ClusterIDs : selectedCluster' = val
    /\ UNCHANGED <<logs, allUsers, sgLoading, timeFilter, isAutoRefresh, isAdmin,
                   schools, tzOffset, fgPending, bgPending, warned, interval,
                   overtaken, lastSettled>>
    /\ UNCHANGED passportVars
    /\ UNCHANGED tabVars
    /\ UNCHANGED <<logsTabVars, monitorVars>>

\* onChange of the time select
SetTimeFilter ==
    /\ \E val \in TimeFilters : timeFilter' = val
    /\ UNCHANGED <<logs, allUsers, sgLoading, selectedCluster, isAutoRefresh,
                   isAdmin, schools, tzOffset, fgPending, bgPending, warned,
                   interval, overtaken, lastSettled>>
    /\ UNCHANGED passportVars
    /\ UNCHANGED tabVars
    /\ UNCHANGED <<logsTabVars, monitorVars>>

\* the steps of fetchData and of the polling effect
FetchNext ==
    \/ FetchResolved
    \/ FetchRejected
    \/ PollTick
    \/ PollResolved
    \/ PollRejected
    \/ ToggleAutoRefresh
    \/ SetUser

\* the steps of a dashboard that does not poll: the mount's fetch and the
\* two filters
ViewerNext ==
    \/ FetchResolved
    \/ FetchRejected
    \/ SetSelectedCluster
    \/ SetTimeFilter

----------------------------------------------------------------------------
(* SummaryGenerator: the data the aggregations read *)

\* CheckInActivity; Capacity and CurrentCount 0 also stand for a missing
\* value, a date is DateTime(t) or NoDate
CheckInActivity(id, name, loc, cap, cur, override, start, end) ==
    [ActivityID |-> id, Name |-> name, LocationID |-> loc, Capacity |-> cap,
     CurrentCount |-> cur, ManualOverride |-> override,
     StartDateTime |-> start, EndDateTime |-> end]

\* a date string that parses, as the instant it denotes
DateTime(t) == [valid |-> TRUE, t |-> t]

\* a missing, empty or unparseable date string
NoDate == [valid |-> FALSE, t |-> 0]

\* an activity as the aggregations see it: no override, no time window
StatActivity(id, name, loc, cap, cur) ==
    CheckInActivity(id, name, loc, cap, cur, "", NoDate, NoDate)

\* a check-in with the display fields the aggregations read
StatLog(uid, aid, ts, userName, activityName, locationName) ==
    [UserID |-> uid, ActivityID |-> aid, Timestamp |-> ts, UserName |-> userName,
     ActivityName |-> activityName, LocationName |-> locationName]

\* slice(0, 10) of topActivities
TopActivitiesLimit == 10

\* slice(0, 15) of schoolStats
SchoolStatsLimit == 15

\* slice(0, 10) of locationStats
LocationStatsLimit == 10

ManyActivityIDs ==
    <<"a1", "a2", "a3", "a4", "a5", "a6", "a7", "a8", "a9", "a10", "a11">>

\* the size of a registry or a log list that overflows a top-10 list
ManyCount == Len(ManyActivityIDs)

ManyActivityNames ==
    <<"Quiz", "Maze", "Act3", "Act4", "Act5", "Act6", "Act7", "Act8", "Act9",
      "Act10", "Act11">>

\* data.checkInActivities: none; two activities without capacity whose stored
\* CurrentCount is stale; two with capacity; eleven with capacity
StatActivityRegistries ==
    { <<>>,
      <<StatActivity("a1", "Quiz", "l1", 0, 5), StatActivity("a2", "Maze", "l9", 0, 0)>>,
      <<StatActivity("a2", "Maze", "l1", 2, 0), StatActivity("a1", "Quiz", "l1", 1, 1)>>,
      [i \in 1..ManyCount |->
          StatActivity(ManyActivityIDs[i], ManyActivityNames[i], "l1", 1, 0)] }

\* data.checkInLocations (no location is registered as "l9")
StatLocations == <<[LocationID |-> "l1", Name |-> "Hall"]>>

\* two check-ins of u1 at different hours and activities in one place, and
\* one of u2 that carries no display fields
StatLogs ==
    { StatLog("u1", "a1", LocalEleven, "Ann", "Quiz", "Hall"),
      StatLog("u1", "a2", UtcFive, "Ann", "Maze", "Hall"),
      StatLog("u2", "a1", UtcFive, "", "", "") }

\* twelve check-ins of u1: one for each of the eleven activities and places,
\* the first of them at another hour, and a second one for the last of them
ManyLogs ==
    [i \in 1..(ManyCount + 1) |->
        LET k == IF i > ManyCount THEN ManyCount ELSE i
            ManyLocationNames ==
                <<"Hall", "Gym", "Loc3", "Loc4", "Loc5", "Loc6", "Loc7", "Loc8", "Loc9",
                  "Loc10", "Loc11">>
        IN  StatLog("u1", ManyActivityIDs[k], IF i = 1 THEN UtcFive ELSE LocalEleven,
                    "Ann", ManyActivityNames[k], ManyLocationNames[k])]

\* two check-ins in rooms that are named by their number, room 20 first
RoomLogs ==
    << StatLog("u1", "a1", LocalEleven, "Ann", "Quiz", "20"),
       StatLog("u2", "a1", LocalEleven, "Bob", "Quiz", "3") >>

\* the log lists the dashboard can hold after loading
StatLogLists == SeqsUpTo(StatLogs, MaxStatLogs) \cup {ManyLogs, RoomLogs}

----------------------------------------------------------------------------
(* SummaryGenerator: overviewStats, schoolStats, locationStats, timeData *)

\* x || d on strings
OrElse(x, d) == IF x = "" THEN d ELSE x

\* Array.prototype.sort with (a, b) => key(b) - key(a): descending by key,
\* equal keys keeping their order; keys[i] is the key of s[i]
StableSortDesc(s, keys) ==
    LET n == Len(s)
        Rank(i) == 1 + Cardinality({j \in 1..n :
                          keys[j] > keys[i] \/ (keys[j] = keys[i] /\ j < i)})
    IN  [r \in 1..n |-> s[CHOOSE i \in 1..n : Rank(i) = r]]

\* the value of a property name that is an array index, a canonical decimal
\* numeral below 2^32 - 1, <<>> for every other name; of the names of the
\* model "20" and "3" are such numerals
IndexValue(name) ==
    IF name = "20" THEN <<20>>
    ELSE IF name = "3" THEN <<3>>
    ELSE <<>>

\* Object.entries(obj) of an object whose properties were created in the
\* order of map, names[i] naming map[i]: the array indices first, in
\* ascending numeric order, then the other names in creation order
ObjectEntries(map, names) ==
    LET n == Len(map)
        IsIndex(i) == IndexValue(names[i]) # <<>>
        Before(j, i) ==
            IF IsIndex(j) /\ IsIndex(i)
            THEN IndexValue(names[j])[1] < IndexValue(names[i])[1]
            ELSE IF IsIndex(j) = IsIndex(i) THEN j < i
            ELSE IsIndex(j)
        Rank(i) == 1 + Cardinality({j \in 1..n : Before(j, i)})
    IN  IF \A i \in 1..n : ~IsIndex(i) THEN map
        ELSE [r \in 1..n |-> map[CHOOSE i \in 1..n : Rank(i) = r]]

\* Array.prototype.slice(0, n)
SliceTo(s, n) == SubSeq(s, 1, IF Len(s) < n THEN Len(s) ELSE n)

\* mutant: every check-in counts as a user
UniqueUsers_PerLog(fl) == Len(fl)

\* mutant: the size falls back to 1, as allUsers.length || 1 does
UniqueUsers_OrOne(fl) ==
    IF fl = <<>> THEN 1 ELSE Cardinality({fl[i].UserID : i \in 1..Len(fl)})

\* new Set(filteredLogs.map(l => l.UserID)).size
UniqueUsers(fl) == Cardinality({fl[i].UserID : i \in 1..Len(fl)})

RECURSIVE TotalCapacity(_)
\* data.checkInActivities.reduce((acc, act) => acc + (act.Capacity || 0), 0)
TotalCapacity(acts) ==
    IF acts = <<>> THEN 0
    ELSE TotalCapacity(SubSeq(acts, 1, Len(acts) - 1)) + acts[Len(acts)].Capacity

\* mutant: the || 1 fallback dropped
TotalRegisteredUsers_NoFallback(users) == Len(users)

\* allUsers.length || 1
TotalRegisteredUsers(users) == IF Len(users) = 0 THEN 1 ELSE Len(users)

\* ((dividend / divisor) * 100).toFixed(1), in tenths of a percent; a
\* division by 0 yields Infinity or NaN, which toFixed prints as such
ToFixed1(dividend, divisor) ==
    IF divisor = 0 THEN [finite |-> FALSE, tenths |-> 0]
    ELSE [finite |-> TRUE,
          tenths |-> (2 * 1000 * dividend + divisor) \div (2 * divisor)]

\* the engagement rate: the operands of the division and its printed value
Utilization(fl, acts, users) ==
    LET totalCapacity == TotalCapacity(acts)
        dividend == IF totalCapacity > 0 THEN Len(fl) ELSE UniqueUsers(fl)
        divisor == IF totalCapacity > 0 THEN totalCapacity
                   ELSE TotalRegisteredUsers(users)
    IN  [dividend |-> dividend, divisor |-> divisor,
         utilizationRate |-> ToFixed1(dividend, divisor),
         isCapacityBased |-> totalCapacity > 0]

\* mutant: the stored counter is shown instead of a recount
ActivityCount_Stored(a, fl) == a.CurrentCount

\* filteredLogs.filter(l => l.ActivityID === a.ActivityID).length
ActivityCount(a, fl) ==
    Len(SelectSeq(fl, LAMBDA l : l.ActivityID = a.ActivityID))

\* data.checkInLocations.find(l => l.LocationID === a.LocationID)?.Name,
\* <<>> standing for undefined
LocationNameOf(a, locs) ==
    LET l == Find(locs, {i \in 1..Len(locs) : locs[i].LocationID = a.LocationID})
    IN  IF l = <<>> THEN <<>> ELSE <<l[1].Name>>

TopActivities(fl, acts, locs) ==
    LET mapped == [i \in 1..Len(acts) |->
                      [name |-> acts[i].Name,
                       value |-> ActivityCount(acts[i], fl),
                       location |-> LocationNameOf(acts[i], locs)]]
        sorted == StableSortDesc(mapped, [i \in 1..Len(acts) |-> mapped[i].value])
    IN  SliceTo(sorted, TopActivitiesLimit)

OverviewStats(fl, acts, locs, users) ==
    LET u == Utilization(fl, acts, users)
    IN  [totalCheckIns |-> Len(fl),
         uniqueUsers |-> UniqueUsers(fl),
         utilizationRate |-> u.utilizationRate,
         topActivities |-> TopActivities(fl, acts, locs),
         isCapacityBased |-> u.isCapacityBased]

\* the memo the overview tab renders
overviewStats ==
    OverviewStats(filteredLogs, checkInActivities, checkInLocations, allUsers)

\* the school name a log is grouped under
SchoolNameOf(log, users, schs) ==
    LET u == Find(users, {i \in 1..Len(users) : users[i].UserID = log.UserID})
    IN  IF u # <<>> /\ u[1].SchoolID # ""
        THEN LET s == Find(schs, {i \in 1..Len(schs) :
                                    \/ schs[i].SchoolID = u[1].SchoolID
                                    \/ schs[i].SchoolName = u[1].SchoolID})
             IN  IF s # <<>> THEN OrElse(s[1].SchoolName, u[1].SchoolID)
                 ELSE u[1].SchoolID
        ELSE "General"

\* the value stored for a participant
Participant(log) ==
    [name |-> OrElse(log.UserName, "Unknown"), time |-> log.Timestamp,
     activity |-> OrElse(log.ActivityName, "-")]

\* mutant: count++ outside the has() test
EntryAdd_CountEveryLog(entry, log) ==
    IF \E k \in 1..Len(entry.userIds) : entry.userIds[k] = log.UserID
    THEN [entry EXCEPT !.count = @ + 1]
    ELSE [entry EXCEPT !.count = @ + 1,
                       !.userIds = Append(@, log.UserID),
                       !.participants = Append(@, Participant(log))]

\* if (!participants.has(log.UserID)) { count++; participants.set(...) }
\* on one schoolMap entry; userIds are the keys of the participants Map
EntryAdd(entry, log) ==
    IF \E k \in 1..Len(entry.userIds) : entry.userIds[k] = log.UserID
    THEN entry
    ELSE [entry EXCEPT !.count = @ + 1,
                       !.userIds = Append(@, log.UserID),
                       !.participants = Append(@, Participant(log))]

\* one iteration of filteredLogs.forEach on schoolMap, the entries kept in
\* insertion order
SchoolMapAdd(map, log, users, schs) ==
    LET schoolName == SchoolNameOf(log, users, schs)
        at == {i \in 1..Len(map) : map[i].name = schoolName}
        fresh == [name |-> schoolName, count |-> 0, userIds |-> <<>>,
                  participants |-> <<>>]
    IN  IF at = {} THEN Append(map, EntryAdd(fresh, log))
        ELSE [i \in 1..Len(map) |->
                 IF i \in at THEN EntryAdd(map[i], log) ELSE map[i]]

RECURSIVE SchoolMap(_, _, _)
SchoolMap(fl, users, schs) ==
    IF fl = <<>> THEN <<>>
    ELSE SchoolMapAdd(SchoolMap(SubSeq(fl, 1, Len(fl) - 1), users, schs),
                      fl[Len(fl)], users, schs)

SchoolStats(fl, users, schs) ==
    IF Len(fl) = 0 \/ Len(users) = 0 THEN <<>>
    ELSE LET created == SchoolMap(fl, users, schs)
             map == ObjectEntries(created,
                                  [i \in 1..Len(created) |-> created[i].name])
             mapped == [i \in 1..Len(map) |->
                           [name |-> map[i].name, count |-> map[i].count,
                            participants |-> map[i].participants]]
             sorted == StableSortDesc(mapped, [i \in 1..Len(map) |-> map[i].count])
         IN  SliceTo(sorted, SchoolStatsLimit)

\* the memo the schools tab renders
schoolStats == SchoolStats(filteredLogs, allUsers, schools)

\* mutant: a place counts each user once
LocCountsAdd_PerUser(map, log, before) ==
    LET locName == OrElse(log.LocationName, "Unknown")
        at == {i \in 1..Len(map) : map[i].name = locName}
        seen == \E k \in 1..Len(before) :
                    /\ before[k].UserID = log.UserID
                    /\ OrElse(before[k].LocationName, "Unknown") = locName
    IN  IF at = {} THEN Append(map, [name |-> locName, value |-> 1])
        ELSE [i \in 1..Len(map) |->
                 IF i \in at /\ ~seen THEN [map[i] EXCEPT !.value = @ + 1]
                 ELSE map[i]]

\* locCounts[locName] = (locCounts[locName] || 0) + 1, the entries kept in
\* the order they are created in; `before` are the logs already iterated
LocCountsAdd(map, log, before) ==
    LET locName == OrElse(log.LocationName, "Unknown")
        at == {i \in 1..Len(map) : map[i].name = locName}
    IN  IF at = {} THEN Append(map, [name |-> locName, value |-> 1])
        ELSE [i \in 1..Len(map) |->
                 IF i \in at THEN [map[i] EXCEPT !.value = @ + 1] ELSE map[i]]

RECURSIVE LocCounts(_)
LocCounts(fl) ==
    IF fl = <<>> THEN <<>>
    ELSE LocCountsAdd(LocCounts(SubSeq(fl, 1, Len(fl) - 1)), fl[Len(fl)],
                      SubSeq(fl, 1, Len(fl) - 1))

LocationStats(fl) ==
    LET created == LocCounts(fl)
        counts == ObjectEntries(created,
                                [i \in 1..Len(created) |-> created[i].name])
        sorted == StableSortDesc(counts, [i \in 1..Len(counts) |-> counts[i].value])
    IN  SliceTo(sorted, LocationStatsLimit)

\* the memo the locations tab renders
locationStats == LocationStats(filteredLogs)

\* String(hour): the decimal digits of an hour
HourDigits(hour) ==
    IF hour < 10 THEN <<hour>> ELSE <<hour \div 10, hour % 10>>

\* mutant: the label is not padded
TimeLabel_NoPad(hour) == HourDigits(hour)

\* `${String(hour).padStart(2, '0')}:00`, as the digits before ":00"
TimeLabel(hour) ==
    LET ds == HourDigits(hour)
    IN  IF Len(ds) < 2 THEN <<0>> \o ds ELSE ds

\* a.localeCompare(b) < 0 on labels: digit strings compared left to right,
\* the ":" that follows a shorter label's digits sorting before every digit
LabelBefore(a, b) ==
    \/ \E k \in 1..Len(a) :
          /\ k <= Len(b)
          /\ \A j \in 1..(k - 1) : a[j] = b[j]
          /\ a[k] < b[k]
    \/ /\ Len(a) < Len(b)
       /\ \A j \in 1..Len(a) : a[j] = b[j]

\* hourCounts[label] = (hourCounts[label] || 0) + 1
HourCountsAdd(map, log, tz) ==
    LET label == TimeLabel(getHours(log.Timestamp, tz))
        at == {i \in 1..Len(map) : map[i].time = label}
    IN  IF at = {} THEN Append(map, [time |-> label, count |-> 1])
        ELSE [i \in 1..Len(map) |->
                 IF i \in at THEN [map[i] EXCEPT !.count = @ + 1] ELSE map[i]]

RECURSIVE HourCounts(_, _)
HourCounts(fl, tz) ==
    IF fl = <<>> THEN <<>>
    ELSE HourCountsAdd(HourCounts(SubSeq(fl, 1, Len(fl) - 1), tz), fl[Len(fl)], tz)

\* Array.prototype.sort with (a, b) => a.time.localeCompare(b.time)
SortByTime(s) ==
    LET n == Len(s)
        Rank(i) == 1 + Cardinality({j \in 1..n :
                          \/ LabelBefore(s[j].time, s[i].time)
                          \/ (~LabelBefore(s[i].time, s[j].time) /\ j < i)})
    IN  [r \in 1..n |-> s[CHOOSE i \in 1..n : Rank(i) = r]]

\* Object.entries(hourCounts) lists the labels in creation order: a label
\* ends in ":00" and is no array index
TimeData(fl, tz) ==
    IF Len(fl) = 0 THEN <<>> ELSE SortByTime(HourCounts(fl, tz))

\* the memo the time tab renders
timeData == TimeData(filteredLogs, tzOffset)

----------------------------------------------------------------------------
(* ActivitiesTab: getActivityStatus and the override toggle *)

\* the activities the tab can be given: every override, a start and an end
\* that are missing or fall inside the clock's range, with and without
\* capacity, below and at capacity
TabActivities ==
    {CheckInActivity("a1", "Quiz", "l1", cap, cur, ov, start, end) :
        cap \in {0, 1}, cur \in {0, 1}, ov \in {"", "OPEN", "CLOSED"},
        start \in {NoDate, DateTime(1), DateTime(3)},
        end \in {NoDate, DateTime(2)}}

\* isDateValid(d): d && !isNaN(new Date(d).getTime())
isDateValid(d) == d.valid

\* mutant: the override is looked at after the time window
getActivityStatus_WindowFirst(act, t) ==
    IF isDateValid(act.StartDateTime) /\ act.StartDateTime.t > t
    THEN [label |-> "NotStarted", key |-> "upcoming"]
    ELSE IF isDateValid(act.EndDateTime) /\ act.EndDateTime.t < t
    THEN [label |-> "Finished", key |-> "ended"]
    ELSE IF act.ManualOverride = "CLOSED"
    THEN [label |-> "ManualClosed", key |-> "ended"]
    ELSE IF act.ManualOverride = "OPEN"
    THEN [label |-> "ManualOpen", key |-> "active"]
    ELSE IF act.Capacity > 0 /\ act.CurrentCount >= act.Capacity
    THEN [label |-> "Full", key |-> "active"]
    ELSE [label |-> "Ongoing", key |-> "active"]

\* getActivityStatus(act) at clock reading t; the label names the Thai text
\* and the colour that goes with it
getActivityStatus(act, t) ==
    IF act.ManualOverride = "CLOSED"
    THEN [label |-> "ManualClosed", key |-> "ended"]
    ELSE IF act.ManualOverride = "OPEN"
    THEN [label |-> "ManualOpen", key |-> "active"]
    ELSE IF isDateValid(act.StartDateTime) /\ act.StartDateTime.t > t
    THEN [label |-> "NotStarted", key |-> "upcoming"]
    ELSE IF isDateValid(act.EndDateTime) /\ act.EndDateTime.t < t
    THEN [label |-> "Finished", key |-> "ended"]
    ELSE IF act.Capacity > 0 /\ act.CurrentCount >= act.Capacity
    THEN [label |-> "Full", key |-> "active"]
    ELSE [label |-> "Ongoing", key |-> "active"]

\* mutant: a closed activity is opened again, never handed back to Auto
NextStatus_NoAuto(act) ==
    IF act.ManualOverride = "OPEN" THEN "CLOSED" ELSE "OPEN"

\* Cycle: Auto (null/empty) -> OPEN -> CLOSED -> Auto
NextStatus(act) ==
    IF act.ManualOverride = "" THEN "OPEN"
    ELSE IF act.ManualOverride = "OPEN" THEN "CLOSED"
    ELSE ""

\* the tab as mounted, with one activity
ActivitiesInit ==
    /\ checkInActivities \in {<<a>> : a \in TabActivities}
    /\ checkInLocations = StatLocations
    /\ now = 0
    /\ saveCalls = 0
    /\ lastConfirm = "none"
    /\ mountedActs = checkInActivities

\* handleToggleStatus(act), the confirm accepted: saveActivity(updated), then
\* onDataUpdate() reloads the data prop with the saved activity
HandleToggleStatus ==
    /\ saveCalls < MaxSaves
    /\ \E i \in 1..Len(checkInActivities) :
        checkInActivities' =
            [checkInActivities EXCEPT ![i].ManualOverride =
                                          NextStatus(checkInActivities[i])]
    /\ saveCalls' = saveCalls + 1
    /\ lastConfirm' = "accepted"
    /\ UNCHANGED <<checkInLocations, now, mountedActs>>
    /\ UNCHANGED passportVars
    /\ UNCHANGED summaryVars
    /\ UNCHANGED <<logsTabVars, monitorVars>>

\* handleToggleStatus(act), the confirm declined: if (!confirm(...)) return
HandleToggleDeclined ==
    /\ checkInActivities # <<>>
    /\ lastConfirm' = "declined"
    /\ UNCHANGED <<checkInActivities, checkInLocations, now, saveCalls,
                   mountedActs>>
    /\ UNCHANGED passportVars
    /\ UNCHANGED summaryVars
    /\ UNCHANGED <<logsTabVars, monitorVars>>

\* time passes between two renders
ClockTick ==
    /\ now < MaxNow
    /\ now' = now + 1
    /\ UNCHANGED <<checkInActivities, checkInLocations, saveCalls, lastConfirm,
                   mountedActs>>
    /\ UNCHANGED passportVars
    /\ UNCHANGED summaryVars
    /\ UNCHANGED <<logsTabVars, monitorVars>>

ActivitiesNext ==
    \/ HandleToggleStatus
    \/ HandleToggleDeclined
    \/ ClockTick

----------------------------------------------------------------------------
(* LogsTab: data.  A text that the search lower-cases and looks into is a   *)
(* sequence of one-character strings; a CheckInID is a number.              *)

\* const itemsPerPage = 15
itemsPerPage == 15

\* the i-th check-in of the admin's log table: the activities alternate, every
\* third user is Bob, every fourth log has no LocationName, the first log was
\* made early on the second day
TabLog(i) ==
    [CheckInID |-> i,
     UserID |-> IF i % 3 = 0 THEN "u2" ELSE "u1",
     UserName |-> IF i % 3 = 0 THEN <<"B", "o", "b">> ELSE <<"A", "n", "n">>,
     ActivityID |-> IF i % 2 = 1 THEN "a1" ELSE "a2",
     ActivityName |-> IF i % 2 = 1 THEN <<"Q", "u", "i", "z">>
                      ELSE <<"M", "a", "z", "e">>,
     LocationName |-> IF i % 4 = 0 THEN <<>> ELSE <<"H", "a", "l", "l">>,
     Timestamp |-> IF i = 1 THEN <<"2024", "01", "02", "T", "05">>
                   ELSE IF i % 2 = 0 THEN UtcFive ELSE LocalEleven]

\* what getCheckInLogs can return to the tab: nothing, or one log more than a
\* page holds
TabLogResponses == {<<>>, [i \in 1..(itemsPerPage + 1) |-> TabLog(i)]}

\* the texts typed into the search box: nothing, and "aN"
SearchQueries == {<<>>, <<"a", "N">>}

----------------------------------------------------------------------------
(* LogsTab: filteredLogs and the page *)

\* String.prototype.toLowerCase, on the letters of the model
toLowerCase(s) ==
    LET upper == <<"A", "B", "H", "M", "N", "Q">>
        lower == <<"a", "b", "h", "m", "n", "q">>
    IN  [i \in 1..Len(s) |->
            IF \E k \in 1..Len(upper) : upper[k] = s[i]
            THEN lower[CHOOSE k \in 1..Len(upper) : upper[k] = s[i]]
            ELSE s[i]]

\* String.prototype.includes
includes(s, q) ==
    \E k \in 0..(Len(s) - Len(q)) : SubSeq(s, k + 1, k + Len(q)) = q

\* new Date(log.Timestamp).toISOString().split('T')[0]: the date in UTC; a
\* local timestamp of an hour before the offset falls on the day before
UtcDate(ts, tz) ==
    LET h == (CHOOSE n \in 1..24 : HourTokens[n] = ts[5]) - 1
        date == SubSeq(ts, 1, 3)
        prevDay == IF date = <<"2024", "01", "02">> THEN <<"2024", "01", "01">>
                   ELSE <<"2023", "12", "31">>
    IN  IF Len(ts) >= 6 /\ ts[6] = "Z" THEN date
        ELSE IF h - tz < 0 THEN prevDay
        ELSE date

\* the memo the table renders: logs.filter(log => matchesSearch &&
\* matchesDate && matchesActivity)
filteredTabLogs ==
    LET q == toLowerCase(searchLogsQuery)
        matchesSearch(log) ==
            \/ includes(toLowerCase(log.UserName), q)
            \/ includes(toLowerCase(log.ActivityName), q)
            \/ includes(toLowerCase(log.LocationName), q)
        matchesDate(log) ==
            dateFilter = <<>> \/ UtcDate(log.Timestamp, tzOffset) = dateFilter
        matchesActivity(log) ==
            activityFilter = "All" \/ log.ActivityID = activityFilter
    IN  SelectSeq(tabLogs, LAMBDA log :
            matchesSearch(log) /\ matchesDate(log) /\ matchesActivity(log))

\* Math.ceil(filteredLogs.length / itemsPerPage)
totalPages == (Len(filteredTabLogs) + itemsPerPage - 1) \div itemsPerPage

\* filteredLogs.slice((currentPage - 1) * itemsPerPage, currentPage * itemsPerPage)
paginatedLogs ==
    LET fl == filteredTabLogs
        to == currentPage * itemsPerPage
    IN  SubSeq(fl, (currentPage - 1) * itemsPerPage + 1,
               IF to < Len(fl) THEN to ELSE Len(fl))

----------------------------------------------------------------------------
(* LogsTab: state, handlers and effects *)

\* the state after construction and the mount effects: setIsLoadingLogs(true),
\* getCheckInLogs() in flight, setCurrentPage(1)
LogsTabInit ==
    /\ tabLogs = <<>>
    /\ isLoadingLogs = TRUE
    /\ searchLogsQuery \in SearchQueries
    /\ dateFilter = <<>>
    /\ activityFilter = "All"
    /\ currentPage = 1
    /\ deleteModal = [isOpen |-> FALSE, id |-> 0]
    /\ isDeleting = FALSE
    /\ logsFetch = "pending"
    /\ deletePending = FALSE
    /\ deletes = 0

\* getCheckInLogs().then(data => { setLogs(data); setIsLoadingLogs(false) })
LogsResolved ==
    /\ logsFetch = "pending"
    /\ \E data \in TabLogResponses : tabLogs' = data
    /\ isLoadingLogs' = FALSE
    /\ logsFetch' = "resolved"
    /\ UNCHANGED <<searchLogsQuery, dateFilter, activityFilter, currentPage,
                   deleteModal, isDeleting, deletePending, deletes>>
    /\ UNCHANGED <<passportVars, summaryVars, tabVars, monitorVars>>

\* getCheckInLogs() rejected: the promise has no catch, no callback runs
LogsRejected ==
    /\ logsFetch = "pending"
    /\ logsFetch' = "rejected"
    /\ UNCHANGED <<tabLogs, isLoadingLogs, searchLogsQuery, dateFilter,
                   activityFilter, currentPage, deleteModal, isDeleting,
                   deletePending, deletes>>
    /\ UNCHANGED <<passportVars, summaryVars, tabVars, monitorVars>>

\* the effect on [searchLogsQuery, dateFilter, activityFilter]: it runs when
\* one of them has changed
ResetPage(changed) == currentPage' = IF changed THEN 1 ELSE currentPage

\* onChange of the search box
SetSearchLogsQuery ==
    /\ ~deleteModal.isOpen
    /\ \E q \in SearchQueries :
        /\ searchLogsQuery' = q
        /\ ResetPage(q # searchLogsQuery)
    /\ UNCHANGED <<tabLogs, isLoadingLogs, dateFilter, activityFilter, deleteModal,
                   isDeleting, logsFetch, deletePending, deletes>>
    /\ UNCHANGED <<passportVars, summaryVars, tabVars, monitorVars>>

\* onChange of the date input: no date, or the first day
SetDateFilter ==
    /\ ~deleteModal.isOpen
    /\ \E df \in {<<>>, <<"2024", "01", "01">>} :
        /\ dateFilter' = df
        /\ ResetPage(df # dateFilter)
    /\ UNCHANGED <<tabLogs, isLoadingLogs, searchLogsQuery, activityFilter,
                   deleteModal, isDeleting, logsFetch, deletePending, deletes>>
    /\ UNCHANGED <<passportVars, summaryVars, tabVars, monitorVars>>

\* onChange of the activity select, the registry holding a1
SetActivityFilter ==
    /\ ~deleteModal.isOpen
    /\ \E af \in {"All", "a1"} :
        /\ activityFilter' = af
        /\ ResetPage(af # activityFilter)
    /\ UNCHANGED <<tabLogs, isLoadingLogs, searchLogsQuery, dateFilter, deleteModal,
                   isDeleting, logsFetch, deletePending, deletes>>
    /\ UNCHANGED <<passportVars, summaryVars, tabVars, monitorVars>>

\* the table and its pagination are rendered
TableShown == ~isLoadingLogs /\ filteredTabLogs # <<>> /\ ~deleteModal.isOpen

\* the previous-page button: setCurrentPage(p => Math.max(1, p - 1))
PrevPage ==
    /\ TableShown
    /\ totalPages > 1
    /\ currentPage # 1
    /\ currentPage' = IF currentPage - 1 > 1 THEN currentPage - 1 ELSE 1
    /\ UNCHANGED <<tabLogs, isLoadingLogs, searchLogsQuery, dateFilter,
                   activityFilter, deleteModal, isDeleting, logsFetch,
                   deletePending, deletes>>
    /\ UNCHANGED <<passportVars, summaryVars, tabVars, monitorVars>>

\* the next-page button: setCurrentPage(p => Math.min(totalPages, p + 1))
NextPage ==
    /\ TableShown
    /\ totalPages > 1
    /\ currentPage # totalPages
    /\ currentPage' = IF currentPage + 1 < totalPages THEN currentPage + 1
                      ELSE totalPages
    /\ UNCHANGED <<tabLogs, isLoadingLogs, searchLogsQuery, dateFilter,
                   activityFilter, deleteModal, isDeleting, logsFetch,
                   deletePending, deletes>>
    /\ UNCHANGED <<passportVars, summaryVars, tabVars, monitorVars>>

\* the delete button of a displayed row
OpenDeleteModal ==
    /\ TableShown
    /\ deletes < MaxDeletes
    /\ \E r \in 1..Len(paginatedLogs) :
        deleteModal' = [isOpen |-> TRUE, id |-> paginatedLogs[r].CheckInID]
    /\ UNCHANGED <<tabLogs, isLoadingLogs, searchLogsQuery, dateFilter,
                   activityFilter, currentPage, isDeleting, logsFetch,
                   deletePending, deletes>>
    /\ UNCHANGED <<passportVars, summaryVars, tabVars, monitorVars>>

\* onCancel of the confirmation modal
CancelDelete ==
    /\ deleteModal.isOpen
    /\ ~isDeleting
    /\ deleteModal' = [deleteModal EXCEPT !.isOpen = FALSE]
    /\ UNCHANGED <<tabLogs, isLoadingLogs, searchLogsQuery, dateFilter,
                   activityFilter, currentPage, isDeleting, logsFetch,
                   deletePending, deletes>>
    /\ UNCHANGED <<passportVars, summaryVars, tabVars, monitorVars>>

\* handleConfirmDelete up to its await: setIsDeleting(true), deleteCheckInLog
ConfirmDelete ==
    /\ deleteModal.isOpen
    /\ ~isDeleting
    /\ isDeleting' = TRUE
    /\ deletePending' = TRUE
    /\ deletes' = deletes + 1
    /\ UNCHANGED <<tabLogs, isLoadingLogs, searchLogsQuery, dateFilter,
                   activityFilter, currentPage, deleteModal, logsFetch>>
    /\ UNCHANGED <<passportVars, summaryVars, tabVars, monitorVars>>

\* handleConfirmDelete after its await: the log leaves the list, the modal
\* closes; currentPage is not touched
DeleteResolved ==
    /\ deletePending
    /\ tabLogs' = SelectSeq(tabLogs, LAMBDA l : l.CheckInID # deleteModal.id)
    /\ isDeleting' = FALSE
    /\ deleteModal' = [deleteModal EXCEPT !.isOpen = FALSE]
    /\ deletePending' = FALSE
    /\ UNCHANGED <<isLoadingLogs, searchLogsQuery, dateFilter, activityFilter,
                   currentPage, logsFetch, deletes>>
    /\ UNCHANGED <<passportVars, summaryVars, tabVars, monitorVars>>

\* deleteCheckInLog rejected: handleConfirmDelete ends at its await, the modal
\* stays open and busy
DeleteRejected ==
    /\ deletePending
    /\ deletePending' = FALSE
    /\ UNCHANGED <<tabLogs, isLoadingLogs, searchLogsQuery, dateFilter,
                   activityFilter, currentPage, deleteModal, isDeleting, logsFetch,
                   deletes>>
    /\ UNCHANGED <<passportVars, summaryVars, tabVars, monitorVars>>

LogsTabNext ==
    \/ LogsResolved
    \/ LogsRejected
    \/ SetSearchLogsQuery
    \/ SetDateFilter
    \/ SetActivityFilter
    \/ PrevPage
    \/ NextPage
    \/ OpenDeleteModal
    \/ CancelDelete
    \/ ConfirmDelete
    \/ DeleteResolved
    \/ DeleteRejected

----------------------------------------------------------------------------
(* LiveMonitorTab: data.  A timestamp is the instant it denotes, as the     *)
(* activities' dates are; the instants of the model are none of them the    *)
(* epoch, so getTime() of a valid date is truthy.                           *)

\* resLogs.slice(0, 10)
RecentLimit == 10

\* the clock ticks of one local day
DayTicks == 2

\* a check-in as the monitor reads it
MonitorLog(i) == [CheckInID |-> i, Timestamp |-> DateTime(i % (MaxNow + 1))]

\* what getCheckInLogs can return to the monitor, newest first: nothing, one
\* log, or one log more than the monitor shows
MonitorResponses ==
    {<<>>,
     <<MonitorLog(1)>>,
     [i \in 1..(RecentLimit + 1) |-> MonitorLog(RecentLimit + 2 - i)]}

\* the registries the monitor can be given: one activity always open, and
\* with it one that is open from tick 1 to tick 2
MonitorRegistries ==
    {<<CheckInActivity("a1", "Quiz", "l1", 0, 0, "", NoDate, NoDate)>>,
     <<CheckInActivity("a1", "Quiz", "l1", 0, 0, "", NoDate, NoDate),
       CheckInActivity("a2", "Maze", "l1", 0, 0, "", DateTime(1), DateTime(2))>>}

----------------------------------------------------------------------------
(* LiveMonitorTab: the statistics of one response *)

\* todayStart is new Date(now.getFullYear(), now.getMonth(), now.getDate()),
\* todayCount is
\* resLogs.filter(l => new Date(l.Timestamp).getTime() >= todayStart).length
TodayCount(resLogs, t) ==
    LET todayStart == t - (t % DayTicks)
    IN  Len(SelectSeq(resLogs, LAMBDA l :
            l.Timestamp.valid /\ l.Timestamp.t >= todayStart))

\* (!s || s <= now.getTime()) && (!e || e >= now.getTime())
ActiveCount(acts, t) ==
    Len(SelectSeq(acts, LAMBDA a :
        /\ (~a.StartDateTime.valid \/ a.StartDateTime.t <= t)
        /\ (~a.EndDateTime.valid \/ a.EndDateTime.t >= t)))

MonitorStats(resLogs, acts, t) ==
    [total |-> Len(resLogs),
     today |-> TodayCount(resLogs, t),
     activeActivities |-> ActiveCount(acts, t)]

----------------------------------------------------------------------------
(* LiveMonitorTab: state, the polling effect and fetchLogs *)

\* A fetchLogs call in flight is the effect run whose closure made it and the
\* data.checkInActivities that closure holds.

\* the isMounted flag of a call's closure: its effect has not been cleaned up
isMounted(call) == monitorMounted /\ call.effect = effect

\* the effect runs: isMounted = true, fetchLogs(), setInterval(fetchLogs, 5000)
RunEffect(acts) ==
    /\ effect' = effect + 1
    /\ timers' = {effect + 1}
    /\ calls' = Append(calls, [effect |-> effect + 1, acts |-> acts])

\* the state after construction and the first run of the effect
MonitorInit ==
    /\ recentLogs = <<>>
    /\ stats = [total |-> 0, today |-> 0, activeActivities |-> 0]
    /\ lastLogIdRef = 0
    /\ monitorMounted = TRUE
    /\ effect = 1
    /\ timers = {1}
    /\ calls = <<[effect |-> 1, acts |-> checkInActivities]>>
    /\ lastFetched = [stale |-> FALSE, len |-> 0]

\* a sequence without its k-th element
RemoveAt(s, k) == SubSeq(s, 1, k - 1) \o SubSeq(s, k + 1, Len(s))

\* mutant: fetchLogs goes on after its await whether or not its effect lives
FetchLogsResolvedWith_Unguarded(k, resLogs) ==
    /\ k \in 1..Len(calls)
    /\ calls' = RemoveAt(calls, k)
    /\ lastFetched' = [stale |-> ~isMounted(calls[k]), len |-> Len(resLogs)]
    /\ stats' = MonitorStats(resLogs, calls[k].acts, now)
    /\ lastLogIdRef' = IF resLogs # <<>> THEN resLogs[1].CheckInID
                       ELSE lastLogIdRef
    /\ recentLogs' = SliceTo(resLogs, RecentLimit)
    /\ UNCHANGED <<monitorMounted, effect, timers>>
    /\ UNCHANGED <<passportVars, summaryVars, tabVars, logsTabVars>>

\* the k-th call in flight resolves with resLogs: fetchLogs after its await.
\* The sound played when the first log is a new one leaves the state alone.
FetchLogsResolvedWith(k, resLogs) ==
    /\ k \in 1..Len(calls)
    /\ calls' = RemoveAt(calls, k)
    /\ lastFetched' = [stale |-> ~isMounted(calls[k]), len |-> Len(resLogs)]
    /\ IF ~isMounted(calls[k])
       THEN UNCHANGED <<stats, lastLogIdRef, recentLogs>>
       ELSE /\ stats' = MonitorStats(resLogs, calls[k].acts, now)
            /\ lastLogIdRef' = IF resLogs # <<>> THEN resLogs[1].CheckInID
                               ELSE lastLogIdRef
            /\ recentLogs' = SliceTo(resLogs, RecentLimit)
    /\ UNCHANGED <<monitorMounted, effect, timers>>
    /\ UNCHANGED <<passportVars, summaryVars, tabVars, logsTabVars>>

FetchLogsResolved ==
    \E k \in 1..Len(calls), resLogs \in MonitorResponses :
        FetchLogsResolvedWith(k, resLogs)

\* a call in flight rejects: fetchLogs ends at its await
FetchLogsRejected ==
    /\ \E k \in 1..Len(calls) : calls' = RemoveAt(calls, k)
    /\ UNCHANGED <<recentLogs, stats, lastLogIdRef, monitorMounted, effect, timers,
                   lastFetched>>
    /\ UNCHANGED <<passportVars, summaryVars, tabVars, logsTabVars>>

\* a timer that is set fires: fetchLogs() of its effect
IntervalTick ==
    /\ Len(calls) < MaxMonitorCalls
    /\ \E e \in timers : 
        calls' = Append(calls, [effect |-> e, acts |-> checkInActivities])
    /\ UNCHANGED <<recentLogs, stats, lastLogIdRef, monitorMounted, effect, timers,
                   lastFetched>>
    /\ UNCHANGED <<passportVars, summaryVars, tabVars, logsTabVars>>

\* the data prop is reloaded with a new data.checkInActivities: the cleanup of
\* the effect (clearInterval, isMounted = false), then the effect again
RegistryChanged ==
    /\ monitorMounted
    /\ effect < MaxEffects
    /\ Len(calls) < MaxMonitorCalls
    /\ checkInActivities' \in MonitorRegistries
    /\ RunEffect(checkInActivities')
    /\ UNCHANGED <<recentLogs, stats, lastLogIdRef, monitorMounted, lastFetched>>
    /\ UNCHANGED <<checkInLocations, now, saveCalls, lastConfirm, mountedActs>>
    /\ UNCHANGED <<passportVars, summaryVars, logsTabVars>>

\* the tab is left: the cleanup of the effect
MonitorUnmount ==
    /\ monitorMounted
    /\ monitorMounted' = FALSE
    /\ timers' = {}
    /\ UNCHANGED <<recentLogs, stats, lastLogIdRef, effect, calls, lastFetched>>
    /\ UNCHANGED <<passportVars, summaryVars, tabVars, logsTabVars>>

\* the tab is opened again: a new instance with its initial state, and the
\* effect
MonitorMount ==
    /\ ~monitorMounted
    /\ effect < MaxEffects
    /\ Len(calls) < MaxMonitorCalls
    /\ monitorMounted' = TRUE
    /\ recentLogs' = <<>>
    /\ stats' = [total |-> 0, today |-> 0, activeActivities |-> 0]
    /\ lastLogIdRef' = 0
    /\ RunEffect(checkInActivities)
    /\ UNCHANGED lastFetched
    /\ UNCHANGED <<passportVars, summaryVars, tabVars, logsTabVars>>

MonitorNext ==
    \/ FetchLogsResolved
    \/ FetchLogsRejected
    \/ IntervalTick
    \/ RegistryChanged
    \/ MonitorUnmount
    \/ MonitorMount
    \/ ClockTick

----------------------------------------------------------------------------
(* Specifications: each component alone, the other not mounted *)

\* the SummaryGenerator state while it is not mounted, the browser at the
\* offset tz
SummaryIdleAt(tz) ==
    /\ logs = <<>>
    /\ allUsers = <<>>
    /\ sgLoading = TRUE
    /\ selectedCluster = "All"
    /\ timeFilter = "All"
    /\ isAutoRefresh = FALSE
    /\ isAdmin = FALSE
    /\ schools = <<>>
    /\ tzOffset = tz
    /\ fgPending = 0
    /\ bgPending = 0
    /\ warned = FALSE
    /\ interval = FALSE
    /\ overtaken = 0
    /\ lastSettled = NoneSettled

SummaryIdle == SummaryIdleAt(0)

\* the data prop and the clock while ActivitiesTab is not mounted and the
\* aggregations over data.checkInActivities are not under study
TabIdle ==
    /\ checkInActivities = <<>>
    /\ checkInLocations = <<>>
    /\ now = 0
    /\ saveCalls = 0
    /\ lastConfirm = "none"
    /\ mountedActs = <<>>

\* the LogsTab state while the tab is not mounted
LogsTabIdle ==
    /\ tabLogs = <<>>
    /\ isLoadingLogs = FALSE
    /\ searchLogsQuery = <<>>
    /\ dateFilter = <<>>
    /\ activityFilter = "All"
    /\ currentPage = 1
    /\ deleteModal = [isOpen |-> FALSE, id |-> 0]
    /\ isDeleting = FALSE
    /\ logsFetch = "none"
    /\ deletePending = FALSE
    /\ deletes = 0

\* the LiveMonitorTab state while the tab is not mounted
MonitorIdle ==
    /\ recentLogs = <<>>
    /\ stats = [total |-> 0, today |-> 0, activeActivities |-> 0]
    /\ lastLogIdRef = 0
    /\ monitorMounted = FALSE
    /\ effect = 0
    /\ timers = {}
    /\ calls = <<>>
    /\ lastFetched = [stale |-> FALSE, len |-> 0]

\* the PassportView state while only SummaryGenerator runs
PassportIdle ==
    /\ userLogs = <<>>
    /\ loading = TRUE
    /\ activities = <<>>

PassportOnlyInit == PassportInit /\ SummaryIdle /\ TabIdle /\ LogsTabIdle /\ MonitorIdle

PassportSpec == PassportOnlyInit /\ [][PassportNext]_vars

\* the filters: the dashboard of a user who is no administrator, which never
\* polls, under two configurations of the props it reads: the plain school
\* registry in Asia/Bangkok, the registry with a repeated SchoolID in UTC
SummaryOnlyInit ==
    /\ SummaryInit
    /\ ~isAdmin
    /\ (tzOffset = 0) = (Len(schools) = 3)
    /\ PassportIdle
    /\ TabIdle
    /\ LogsTabIdle /\ MonitorIdle

SummarySpec == SummaryOnlyInit /\ [][ViewerNext]_vars

\* fetchData and the polling effect alone: the filters left as mounted, the
\* props fetchData does not read held to one value
FetchOnlyInit ==
    /\ SummaryInit
    /\ tzOffset = 0
    /\ Len(schools) = 2
    /\ PassportIdle
    /\ TabIdle
    /\ LogsTabIdle /\ MonitorIdle

FetchSpec == FetchOnlyInit /\ [][FetchNext]_vars

\* the aggregations alone: the dashboard of a non-admin user after its fetch,
\* whatever it loaded, the user working the two filters
AnalyticsOnlyInit ==
    /\ logs \in StatLogLists
    /\ allUsers \in UserLists
    /\ sgLoading = FALSE
    /\ selectedCluster = "All"
    /\ timeFilter = "All"
    /\ isAutoRefresh = FALSE
    /\ isAdmin = FALSE
    /\ schools \in SchoolRegistries
    /\ tzOffset \in TzOffsets
    /\ (tzOffset = 0) = (Len(schools) = 3)
    /\ fgPending = 0
    /\ bgPending = 0
    /\ warned = FALSE
    /\ interval = FALSE
    /\ overtaken = 0
    /\ lastSettled = NoneSettled
    /\ checkInActivities \in StatActivityRegistries
    /\ checkInLocations = StatLocations
    /\ now = 0
    /\ saveCalls = 0
    /\ lastConfirm = "none"
    /\ mountedActs = <<>>
    /\ PassportIdle
    /\ LogsTabIdle /\ MonitorIdle

AnalyticsNext ==
    \/ SetSelectedCluster
    \/ SetTimeFilter

AnalyticsSpec == AnalyticsOnlyInit /\ [][AnalyticsNext]_vars

ActivitiesOnlyInit == ActivitiesInit /\ PassportIdle /\ SummaryIdle /\ LogsTabIdle /\ MonitorIdle

ActivitiesSpec == ActivitiesOnlyInit /\ [][ActivitiesNext]_vars

\* LogsTab alone, the browser in UTC or in Asia/Bangkok
LogsTabOnlyInit ==
    /\ LogsTabInit
    /\ PassportIdle
    /\ \E tz \in TzOffsets : SummaryIdleAt(tz)
    /\ TabIdle
    /\ MonitorIdle

LogsTabSpec == LogsTabOnlyInit /\ [][LogsTabNext]_vars

\* the promise of the mount effect settles: a pending fetch is answered or
\* fails in the end
LogsTabLiveSpec == LogsTabSpec /\ WF_vars(LogsResolved \/ LogsRejected)

\* LiveMonitorTab alone, given one of its registries
MonitorOnlyInit ==
    /\ checkInActivities \in MonitorRegistries
    /\ checkInLocations = StatLocations
    /\ now = 0
    /\ saveCalls = 0
    /\ lastConfirm = "none"
    /\ mountedActs = <<>>
    /\ MonitorInit
    /\ PassportIdle
    /\ SummaryIdle
    /\ LogsTabIdle

MonitorSpec == MonitorOnlyInit /\ [][MonitorNext]_vars

----------------------------------------------------------------------------
(* Properties of calculateProgress.  The mission is the function's         *)
(* parameter: each property quantifies over every mission of Missions (and *)
(* the missing mission) in every reachable state of userLogs and           *)
(* data.activities.  The helpers below restate, without the code's         *)
(* operators, what "a log on the mission date" and "resolves in the        *)
(* registry" mean.                                                         *)

AnyMission == Missions \cup {NoMission}

\* the log's Timestamp begins with the mission date's three tokens
OnDate(l, date) == SubSeq(l.Timestamp, 1, 3) = date

OnDateIdx(ulogs, date) == {k \in 1..Len(ulogs) : OnDate(ulogs[k], date)}

\* the registry entry a log's ActivityID resolves to is the first with that id
ResolvesTo(registry, l, j) ==
    /\ j \in 1..Len(registry)
    /\ registry[j].id = l.ActivityID
    /\ \A i \in 1..(j - 1) : registry[i].id # l.ActivityID

Resolves(registry, l) == \E j \in 1..Len(registry) : registry[j].id = l.ActivityID

ReqIdx(m, type) ==
    {i \in 1..Len(m.requirements) : m.requirements[i].type = type}

Settled == loading = FALSE

\* C1: isComplete is true exactly when progress = total and total > 0, where
\* total is the number of requirements and progress the number of achieved
\* ones; a mission without requirements is never complete.
C1_IsCompleteIff ==
    \A m \in AnyMission :
        LET r == calculateProgress(m)
        IN  /\ r.total = Len(m.requirements)
            /\ r.progress = Cardinality({i \in 1..Len(r.reqStatus) : r.reqStatus[i].achieved})
            /\ r.isComplete <=> (r.progress = r.total /\ r.total > 0)
            /\ Len(m.requirements) = 0 => ~r.isComplete

\* a complete mission, and a mission without requirements on a day with logs
C1_Witness ==
    /\ Settled
    /\ \E m \in Missions :
        /\ Len(m.requirements) = 2
        /\ calculateProgress(m).isComplete
    /\ \E m \in Missions :
        /\ Len(m.requirements) = 0
        /\ OnDateIdx(userLogs, m.date) # {}
        /\ calculateProgress(m).progress = calculateProgress(m).total
        /\ ~calculateProgress(m).isComplete

\* C2: a total_count requirement reports currentVal = the number of the user's
\* logs on the mission date and achieved = (currentVal >= targetValue).
C2_TotalCount ==
    \A m \in Missions :
        \A i \in ReqIdx(m, "total_count") :
            LET st == calculateProgress(m).reqStatus[i]
                n == Cardinality(OnDateIdx(userLogs, m.date))
            IN  /\ st.currentVal = n
                /\ st.achieved <=> n >= m.requirements[i].targetValue
                /\ n = m.requirements[i].targetValue => st.achieved
                /\ n = m.requirements[i].targetValue - 1 => ~st.achieved

\* the boundary on both sides: a day with exactly T = 1 logs achieves target
\* T, a day with T - 1 = 0 logs does not
C2_Witness ==
    /\ Settled
    /\ \E d1, d2 \in Dates :
        /\ Cardinality(OnDateIdx(userLogs, d1)) = 1
        /\ Cardinality(OnDateIdx(userLogs, d2)) = 0
        /\ calculateProgress(Mission(d1, <<Requirement("total_count", "", 1)>>)).reqStatus[1].achieved
        /\ ~calculateProgress(Mission(d2, <<Requirement("total_count", "", 1)>>)).reqStatus[1].achieved

\* C3: a specific_activity requirement is achieved iff some log on the mission
\* date has ActivityID = targetId, and currentVal is 1 when achieved, else 0.
C3_SpecificActivity ==
    \A m \in Missions :
        \A i \in ReqIdx(m, "specific_activity") :
            LET st == calculateProgress(m).reqStatus[i]
                hit == \E k \in OnDateIdx(userLogs, m.date) :
                          userLogs[k].ActivityID = m.requirements[i].targetId
            IN  /\ st.achieved <=> hit
                /\ st.currentVal = IF hit THEN 1 ELSE 0

\* two logs of the target activity on the mission date, currentVal still 1
C3_Witness ==
    /\ Settled
    /\ \E m \in Missions :
        \E i \in ReqIdx(m, "specific_activity") :
            /\ Cardinality({k \in OnDateIdx(userLogs, m.date) :
                   userLogs[k].ActivityID = m.requirements[i].targetId}) >= 2
            /\ calculateProgress(m).reqStatus[i].currentVal = 1

\* C4: a category_count requirement reports currentVal = the number of logs
\* on the mission date whose ActivityID resolves in the activity registry to
\* an activity of category targetId, and achieved = (currentVal >= targetValue).
C4_CategoryCount ==
    \A m \in Missions :
        \A i \in ReqIdx(m, "category_count") :
            LET st == calculateProgress(m).reqStatus[i]
                req == m.requirements[i]
                n == Cardinality({k \in OnDateIdx(userLogs, m.date) :
                        \E j \in 1..Len(activities) :
                            /\ ResolvesTo(activities, userLogs[k], j)
                            /\ activities[j].category = req.targetId})
            IN  /\ st.currentVal = n
                /\ st.achieved <=> n >= req.targetValue

\* a day whose logs partly count: one resolves to the category, one resolves
\* to another category although a later entry with its id has the category
C4_Witness ==
    /\ Settled
    /\ \E m \in Missions :
        \E i \in ReqIdx(m, "category_count") :
            /\ calculateProgress(m).reqStatus[i].currentVal = 1
            /\ calculateProgress(m).reqStatus[i].achieved
            /\ Cardinality(OnDateIdx(userLogs, m.date)) >= 2
            /\ \E k \in OnDateIdx(userLogs, m.date) :
                \E j1, j2 \in 1..Len(activities) :
                    /\ ResolvesTo(activities, userLogs[k], j1)
                    /\ j1 < j2
                    /\ activities[j2].id = userLogs[k].ActivityID
                    /\ activities[j1].category # m.requirements[i].targetId
                    /\ activities[j2].category = m.requirements[i].targetId

RECURSIVE KeepOnDate(_, _)
\* the logs of one date, in their order
KeepOnDate(ulogs, date) ==
    IF ulogs = <<>> THEN <<>>
    ELSE (IF OnDate(Head(ulogs), date) THEN <<Head(ulogs)>> ELSE <<>>)
         \o KeepOnDate(Tail(ulogs), date)

\* C5: only logs whose Timestamp starts with mission.date contribute: the
\* result for userLogs is the result for the logs of the mission date alone, so
\* two log lists with the same logs of that date yield the same progress,
\* total, isComplete and requirement statuses, whatever else they hold.
C5_OnlyMissionDate ==
    \A m \in Missions :
        CalcProgress(m, KeepOnDate(userLogs, m.date), activities) = calculateProgress(m)

\* logs of both dates are present, and a mission counts only its own date's
C5_Witness ==
    /\ Settled
    /\ \A d \in Dates : OnDateIdx(userLogs, d) # {}
    /\ \E m \in Missions :
        \E i \in ReqIdx(m, "total_count") :
            /\ calculateProgress(m).reqStatus[i].currentVal < Len(userLogs)
            /\ calculateProgress(m).reqStatus[i].currentVal > 0

\* C6: reqStatus has one entry per requirement, in the order of
\* mission.requirements, entry i carrying the id, type, targetId and
\* targetValue of requirement i.
C6_OrderPreserved ==
    \A m \in AnyMission :
        LET r == calculateProgress(m)
        IN  /\ Len(r.reqStatus) = Len(m.requirements)
            /\ \A i \in 1..Len(m.requirements) :
                /\ r.reqStatus[i].id = m.requirements[i].id
                /\ r.reqStatus[i].type = m.requirements[i].type
                /\ r.reqStatus[i].targetId = m.requirements[i].targetId
                /\ r.reqStatus[i].targetValue = m.requirements[i].targetValue

\* a mission of two requirements of different types, one achieved, one not
C6_Witness ==
    /\ Settled
    /\ \E m \in Missions :
        LET r == calculateProgress(m)
        IN  /\ Len(m.requirements) = 2
            /\ m.requirements[1].type # m.requirements[2].type
            /\ r.reqStatus[1].achieved
            /\ ~r.reqStatus[2].achieved

\* C7: a requirement of a type other than the three known ones is reported
\* achieved = false with currentVal = 0, and a mission holding one is never
\* complete.
C7_UnknownTypeNeverAchieved ==
    \A m \in Missions :
        \A i \in 1..Len(m.requirements) :
            m.requirements[i].type \notin ReqTypes =>
                LET r == calculateProgress(m)
                IN  /\ ~r.reqStatus[i].achieved
                    /\ r.reqStatus[i].currentVal = 0
                    /\ ~r.isComplete

\* an unknown-type requirement beside an achieved one, on a day that has a
\* log of the activity the unknown requirement names
C7_Witness ==
    /\ Settled
    /\ \E m \in Missions :
        \E i, j \in 1..Len(m.requirements) :
            /\ m.requirements[i].type \notin ReqTypes
            /\ \E k \in OnDateIdx(userLogs, m.date) :
                  userLogs[k].ActivityID = m.requirements[i].targetId
            /\ calculateProgress(m).reqStatus[j].achieved
            /\ calculateProgress(m).progress = 1

ResultShape(m, r) ==
    /\ DOMAIN r = {"progress", "total", "isComplete", "reqStatus"}
    /\ r.total \in 0..MaxReqs
    /\ r.progress \in 0..r.total
    /\ r.isComplete \in BOOLEAN
    /\ DOMAIN r.reqStatus = 1..r.total
    /\ \A i \in 1..r.total :
        /\ r.reqStatus[i].achieved \in BOOLEAN
        /\ r.reqStatus[i].currentVal \in 0..Len(userLogs)

NoneResolves(date) ==
    \A k \in OnDateIdx(userLogs, date) : ~Resolves(activities, userLogs[k])

\* C8 as stated: calculateProgress always returns a result, and when none of
\* the day's logs resolves in the registry every category_count requirement
\* is reported not achieved (read here for a day that has logs).
C8_Original ==
    \A m \in AnyMission :
        /\ ResultShape(m, calculateProgress(m))
        /\ (OnDateIdx(userLogs, m.date) # {} /\ NoneResolves(m.date)) =>
            \A i \in ReqIdx(m, "category_count") :
                ~calculateProgress(m).reqStatus[i].achieved

\* C8 as amended: calculateProgress always returns a result; a log whose
\* ActivityID has no registry entry is never counted toward a category_count
\* requirement; when none of the day's logs resolves, every category_count
\* requirement has currentVal = 0 and is achieved only if targetValue <= 0.
C8_UnresolvedNeverCounted ==
    \A m \in AnyMission :
        /\ ResultShape(m, calculateProgress(m))
        /\ \A i \in ReqIdx(m, "category_count") :
            LET st == calculateProgress(m).reqStatus[i]
            IN  /\ st.currentVal <=
                       Cardinality({k \in OnDateIdx(userLogs, m.date) :
                                       Resolves(activities, userLogs[k])})
                /\ NoneResolves(m.date) =>
                    /\ st.currentVal = 0
                    /\ st.achieved <=> m.requirements[i].targetValue <= 0

\* the day has logs, none of them registered; a category_count requirement
\* with target 1 is not achieved and one with target 0 is
C8_Witness ==
    /\ Settled
    /\ \E m \in Missions :
        /\ OnDateIdx(userLogs, m.date) # {}
        /\ NoneResolves(m.date)
        /\ \E i, j \in ReqIdx(m, "category_count") :
            /\ m.requirements[i].targetValue = 1
            /\ ~calculateProgress(m).reqStatus[i].achieved
            /\ m.requirements[j].targetValue = 0
            /\ calculateProgress(m).reqStatus[j].achieved

----------------------------------------------------------------------------
(* Properties of filteredLogs.  The helpers restate the filter stage with  *)
(* explicit positions instead of the code's find and filter.               *)

\* position i holds the user record the log's UserID resolves to
IsUserOf(l, i) ==
    /\ i \in 1..Len(allUsers)
    /\ allUsers[i].UserID = l.UserID
    /\ \A j \in 1..(i - 1) : allUsers[j].UserID # l.UserID

SchoolMatches(sch, schoolId) == sch.SchoolID = schoolId \/ sch.SchoolName = schoolId

\* position i holds the school matching schoolId
IsSchoolOf(schoolId, i) ==
    /\ i \in 1..Len(schools)
    /\ SchoolMatches(schools[i], schoolId)
    /\ \A j \in 1..(i - 1) : ~SchoolMatches(schools[j], schoolId)

\* the log's user resolves to cluster c (c is a ClusterID, never empty)
ResolvesToCluster(l, c) ==
    \E i \in 1..Len(allUsers) :
        /\ IsUserOf(l, i)
        /\ \/ allUsers[i].Cluster = c
           \/ /\ allUsers[i].Cluster = ""
              /\ \E k \in 1..Len(schools) :
                    /\ IsSchoolOf(allUsers[i].SchoolID, k)
                    /\ schools[k].SchoolCluster = c

LocalHour(l) == getHours(l.Timestamp, tzOffset)

ShouldPass(l) ==
    /\ selectedCluster = "All" \/ ResolvesToCluster(l, selectedCluster)
    /\ \/ timeFilter = "All"
       \/ timeFilter = "Morning" /\ LocalHour(l) < 12
       \/ timeFilter = "Afternoon" /\ LocalHour(l) >= 12

RECURSIVE KeepPassing(_)
\* the logs that should pass, in their order
KeepPassing(s) ==
    IF s = <<>> THEN <<>>
    ELSE (IF ShouldPass(Head(s)) THEN <<Head(s)>> ELSE <<>>) \o KeepPassing(Tail(s))

InList(l, s) == \E k \in 1..Len(s) : s[k] = l

\* C9: a log is in filteredLogs iff (selectedCluster is "All" or the cluster
\* resolved for its user - User.Cluster when non-empty, else the cluster of
\* the school matching User.SchoolID - equals selectedCluster) and (timeFilter
\* is "All", or its local hour is < 12 under "Morning", >= 12 under
\* "Afternoon"); a log of a user missing from allUsers is excluded under
\* every specific cluster filter.
C9_FilterStage ==
    /\ filteredLogs = KeepPassing(logs)
    /\ \A k \in 1..Len(logs) :
        /\ InList(logs[k], filteredLogs) <=> ShouldPass(logs[k])
        /\ (selectedCluster # "All"
            /\ \A i \in 1..Len(allUsers) : allUsers[i].UserID # logs[k].UserID)
           => ~InList(logs[k], filteredLogs)

\* under a specific cluster and a time filter one log passes through its
\* school's cluster at the hour boundary, another is dropped; a log of an
\* unknown user is among the logs
C9_Witness ==
    /\ fgPending = 0
    /\ selectedCluster \in ClusterIDs
    /\ timeFilter = "Afternoon"
    /\ Len(logs) = 2
    /\ Len(filteredLogs) = 1
    /\ LocalHour(filteredLogs[1]) = 12
    /\ \E i \in 1..Len(allUsers) :
        /\ IsUserOf(filteredLogs[1], i)
        /\ allUsers[i].Cluster = ""
    /\ \E k \in 1..Len(logs) :
        \A i \in 1..Len(allUsers) : allUsers[i].UserID # logs[k].UserID

TimeAlone(l) ==
    \/ timeFilter = "All"
    \/ timeFilter = "Morning" /\ LocalHour(l) < 12
    \/ timeFilter = "Afternoon" /\ LocalHour(l) >= 12

RECURSIVE KeepTimeAlone(_)
\* the logs the time filter alone lets pass, in their order
KeepTimeAlone(s) ==
    IF s = <<>> THEN <<>>
    ELSE (IF TimeAlone(Head(s)) THEN <<Head(s)>> ELSE <<>>) \o KeepTimeAlone(Tail(s))

\* C10: with selectedCluster = "All" the cluster stage removes nothing:
\* filteredLogs is the result of the time filter alone, whatever the users and
\* schools registries are, and with both filters "All" it is the full log
\* list in its original order.
C10_AllClustersIsNoFilter ==
    selectedCluster = "All" =>
        /\ filteredLogs = KeepTimeAlone(logs)
        /\ \A us \in UserLists, schs \in SchoolRegistries :
            FilteredLogs(logs, us, selectedCluster, timeFilter, schs, tzOffset)
                = filteredLogs
        /\ timeFilter = "All" => filteredLogs = logs

\* "All" clusters with a time filter that drops one of two logs, the kept log
\* being of a user allUsers does not hold
C10_Witness ==
    /\ fgPending = 0
    /\ selectedCluster = "All"
    /\ timeFilter = "Morning"
    /\ Len(logs) = 2
    /\ Len(filteredLogs) = 1
    /\ \A i \in 1..Len(allUsers) : allUsers[i].UserID # filteredLogs[1].UserID
    /\ FilteredLogs(logs, allUsers, "All", "All", schools, tzOffset) = logs

\* the elements of a list
Elems(s) == {s[k] : k \in 1..Len(s)}

ClusterStageLogs ==
    FilteredLogs(logs, allUsers, selectedCluster, "All", schools, tzOffset)

MorningLogs ==
    FilteredLogs(logs, allUsers, selectedCluster, "Morning", schools, tzOffset)

AfternoonLogs ==
    FilteredLogs(logs, allUsers, selectedCluster, "Afternoon", schools, tzOffset)

\* C11: for the cluster filter in force, every log that passes the cluster
\* stage is in exactly one of the "Morning" and "Afternoon" results: the two
\* results are disjoint and together they are the timeFilter = "All" result.
C11_TimePartition ==
    /\ Elems(MorningLogs) \cap Elems(AfternoonLogs) = {}
    /\ Elems(MorningLogs) \cup Elems(AfternoonLogs) = Elems(ClusterStageLogs)
    /\ Len(MorningLogs) + Len(AfternoonLogs) = Len(ClusterStageLogs)
    /\ \A k \in 1..Len(ClusterStageLogs) :
        InList(ClusterStageLogs[k], MorningLogs)
            # InList(ClusterStageLogs[k], AfternoonLogs)

\* under a specific cluster both halves are inhabited, the afternoon by a log
\* at hour 12 exactly and the morning by a log at hour 11
C11_Witness ==
    /\ fgPending = 0
    /\ selectedCluster \in ClusterIDs
    /\ Len(MorningLogs) = 1
    /\ Len(AfternoonLogs) = 1
    /\ LocalHour(MorningLogs[1]) = 11
    /\ LocalHour(AfternoonLogs[1]) = 12

----------------------------------------------------------------------------
(* Properties of fetchData *)

\* C20: a fetchData call that fails is caught (the warning is logged) and
\* leaves logs and allUsers as they were before the call, neither of them
\* updated; a foreground call that fails sets loading to false.
C20_FailureKeepsData ==
    [][(FetchRejected \/ PollRejected) =>
            /\ warned'
            /\ logs' = logs
            /\ allUsers' = allUsers
            /\ FetchRejected => sgLoading' = FALSE]_vars

\* a refresh failed after data had been loaded, and the data is still there
C20_Witness ==
    /\ warned
    /\ fgPending = 0
    /\ bgPending = 0
    /\ ~sgLoading
    /\ Len(logs) = 2
    /\ Len(allUsers) >= 2

----------------------------------------------------------------------------
(* Properties of the aggregations.  The helpers count over positions of    *)
(* filteredLogs and resolve users and schools by position, without the     *)
(* code's Set, Map, find, sort and slice.                                  *)

\* the positions that hold the first log of their user
FirstOfUser(fl) ==
    {k \in 1..Len(fl) : \A j \in 1..(k - 1) : fl[j].UserID # fl[k].UserID}

\* the positions that hold the last log of their user
LastOfUser(fl) ==
    {k \in 1..Len(fl) : \A j \in (k + 1)..Len(fl) : fl[j].UserID # fl[k].UserID}

RECURSIVE CapacityUpTo(_)
\* the capacities of the first n registered activities, added up
CapacityUpTo(n) ==
    IF n = 0 THEN 0 ELSE checkInActivities[n].Capacity + CapacityUpTo(n - 1)

Smaller(a, b) == IF a < b THEN a ELSE b

Distance(a, b) == IF a < b THEN b - a ELSE a - b

\* C12: uniqueUsers is the number of distinct UserIDs among filteredLogs,
\* several check-ins of one user counting once, totalCheckIns is the number
\* of filteredLogs, and so uniqueUsers <= totalCheckIns.
C12_UniqueUsers ==
    LET o == overviewStats
        fl == filteredLogs
    IN  /\ o.totalCheckIns = Len(fl)
        /\ o.uniqueUsers = Cardinality(FirstOfUser(fl))
        /\ o.uniqueUsers <= o.totalCheckIns

\* under a cluster filter two of three check-ins pass, both by one user
C12_Witness ==
    /\ selectedCluster \in ClusterIDs
    /\ Len(logs) = 3
    /\ overviewStats.totalCheckIns = 2
    /\ overviewStats.uniqueUsers = 1

\* C13: the rate is totalCheckIns * 100 / totalCapacity when the capacities
\* add up to more than 0, and uniqueUsers * 100 / totalRegisteredUsers
\* otherwise, totalRegisteredUsers being the number of users, or 1 when there
\* are none; the divisor is never 0 and the printed rate is that quotient to
\* the nearest tenth.
C13_Utilization ==
    LET u == Utilization(filteredLogs, checkInActivities, allUsers)
        totalCapacity == CapacityUpTo(Len(checkInActivities))
        rate == overviewStats.utilizationRate
    IN  /\ u.divisor # 0
        /\ totalCapacity > 0 =>
            /\ u.divisor = totalCapacity
            /\ u.dividend = Len(filteredLogs)
        /\ totalCapacity <= 0 =>
            /\ u.divisor = IF Len(allUsers) = 0 THEN 1 ELSE Len(allUsers)
            /\ u.dividend = Cardinality(FirstOfUser(filteredLogs))
        /\ rate.finite
        /\ 2 * Distance(rate.tenths * u.divisor, 1000 * u.dividend) <= u.divisor

\* no capacity is set and no user is registered: the two users that pass
\* the time filter over a divisor of 1, a rate of 200.0
C13_Witness ==
    /\ timeFilter = "Afternoon"
    /\ Len(filteredLogs) < Len(logs)
    /\ Len(checkInActivities) = 2
    /\ CapacityUpTo(Len(checkInActivities)) = 0
    /\ Len(allUsers) = 0
    /\ overviewStats.uniqueUsers = 2
    /\ ~overviewStats.isCapacityBased
    /\ overviewStats.utilizationRate.tenths = 2000

\* the number of filtered logs of registered activity i
LogsOfActivity(fl, i) ==
    Cardinality({k \in 1..Len(fl) :
                    fl[k].ActivityID = checkInActivities[i].ActivityID})

\* C14: topActivities has min(10, number of registered activities) entries,
\* each the name of a registered activity (none twice) with the number of
\* filteredLogs of its ActivityID as value, in non-increasing order of value,
\* and no omitted activity has more logs than an included one.
C14_TopActivities ==
    LET top == overviewStats.topActivities
        fl == filteredLogs
        n == Len(checkInActivities)
    IN  /\ Len(top) = Smaller(10, n)
        /\ \A r \in 1..Len(top) :
            \E i \in 1..n :
                /\ checkInActivities[i].Name = top[r].name
                /\ top[r].value = LogsOfActivity(fl, i)
        /\ \A r1, r2 \in 1..Len(top) : r1 # r2 => top[r1].name # top[r2].name
        /\ \A r \in 1..(Len(top) - 1) : top[r].value >= top[r + 1].value
        /\ \A i \in 1..n :
            (\A r \in 1..Len(top) : top[r].name # checkInActivities[i].Name)
                => \A r \in 1..Len(top) : LogsOfActivity(fl, i) <= top[r].value

\* eleven activities, the last registered leading with two logs although its
\* stored CurrentCount is 0; the first registered is left out, its one log
\* being dropped by the time filter
C14_Witness ==
    LET top == overviewStats.topActivities
    IN  /\ timeFilter = "Morning"
        /\ Len(checkInActivities) = 11
        /\ Len(top) = 10
        /\ top[1].name = checkInActivities[11].Name
        /\ top[1].value = 2
        /\ top[10].value = 1
        /\ checkInActivities[11].CurrentCount = 0
        /\ LogsOfActivity(logs, 1) = 1
        /\ LogsOfActivity(filteredLogs, 1) = 0
        /\ \A r \in 1..Len(top) : top[r].name # checkInActivities[1].Name

\* the school name a log is grouped under: the name of the first school
\* matching the SchoolID of the first user record with the log's UserID, that
\* SchoolID itself when no school matches or the school has no name, and
\* "General" without such a user or without SchoolID
GroupedUnder(l, name) ==
    \/ /\ name = "General"
       /\ \A i \in 1..Len(allUsers) : IsUserOf(l, i) => allUsers[i].SchoolID = ""
    \/ \E i \in 1..Len(allUsers) :
        /\ IsUserOf(l, i)
        /\ allUsers[i].SchoolID # ""
        /\ \/ /\ name = allUsers[i].SchoolID
              /\ \A k \in 1..Len(schools) :
                    IsSchoolOf(allUsers[i].SchoolID, k) => schools[k].SchoolName = ""
           \/ \E k \in 1..Len(schools) :
                /\ IsSchoolOf(allUsers[i].SchoolID, k)
                /\ schools[k].SchoolName # ""
                /\ name = schools[k].SchoolName

UsersOfSchool(fl, name) ==
    {fl[k].UserID : k \in {j \in 1..Len(fl) : GroupedUnder(fl[j], name)}}

\* C15: every schoolStats entry counts each user once however many filtered
\* logs the user has: count is the number of distinct UserIDs among the
\* filtered logs grouped under that school, and the length of participants.
C15_SchoolCountsUsersOnce ==
    LET ss == schoolStats
        fl == filteredLogs
    IN  /\ \A r \in 1..Len(ss) :
            /\ ss[r].count = Cardinality(UsersOfSchool(fl, ss[r].name))
            /\ ss[r].count = Len(ss[r].participants)
        /\ \A r1, r2 \in 1..Len(ss) : r1 # r2 => ss[r1].name # ss[r2].name

\* two schools, one of them with three filtered logs of two users
C15_Witness ==
    LET ss == schoolStats
        fl == filteredLogs
    IN  /\ timeFilter = "Morning"
        /\ Len(ss) = 2
        /\ Len(fl) = 3
        /\ \E r \in 1..Len(ss) :
            /\ ss[r].count = 1
            /\ Cardinality({k \in 1..Len(fl) : GroupedUnder(fl[k], ss[r].name)}) = 2

\* C16 as stated: the participant kept for a user carries the timestamp and
\* activity of the user's last filtered log.
C16_LastWriteWins ==
    LET ss == schoolStats
        fl == filteredLogs
    IN  Len(allUsers) > 0 =>
            \A k \in LastOfUser(fl) :
                \E r \in 1..Len(ss) :
                    /\ GroupedUnder(fl[k], ss[r].name)
                    /\ \E p \in 1..Len(ss[r].participants) :
                        /\ ss[r].participants[p].time = fl[k].Timestamp
                        /\ ss[r].participants[p].activity
                               = IF fl[k].ActivityName = "" THEN "-"
                                 ELSE fl[k].ActivityName

\* the place a log is counted under
PlaceOf(l) == IF l.LocationName = "" THEN "Unknown" ELSE l.LocationName

PlacesOf(fl) == {PlaceOf(fl[k]) : k \in 1..Len(fl)}

LogsAt(fl, place) == Cardinality({k \in 1..Len(fl) : PlaceOf(fl[k]) = place})

RECURSIVE ValuesUpTo(_, _)
\* the values of the first n entries, added up
ValuesUpTo(s, n) == IF n = 0 THEN 0 ELSE s[n].value + ValuesUpTo(s, n - 1)

\* C17: locationStats has one entry for each LocationName of filteredLogs, at
\* most 10 of them, each with the number of filtered logs at that place (a
\* user's repeated check-ins all counting), in non-increasing order of count;
\* with at most 10 places the counts add up to the number of filteredLogs.
C17_LocationStats ==
    LET ls == locationStats
        fl == filteredLogs
        places == PlacesOf(fl)
    IN  /\ Len(ls) = Smaller(10, Cardinality(places))
        /\ \A r \in 1..Len(ls) :
            /\ ls[r].name \in places
            /\ ls[r].value = LogsAt(fl, ls[r].name)
        /\ \A r1, r2 \in 1..Len(ls) : r1 # r2 => ls[r1].name # ls[r2].name
        /\ \A r \in 1..(Len(ls) - 1) : ls[r].value >= ls[r + 1].value
        /\ Cardinality(places) <= 10 => ValuesUpTo(ls, Len(ls)) = Len(fl)

\* eleven places: the one user's two check-ins at the last place lead with a
\* count of 2, ten entries are kept and one log is not in any of them
C17_Witness ==
    LET ls == locationStats
        fl == filteredLogs
    IN  /\ timeFilter = "Morning"
        /\ Cardinality(PlacesOf(fl)) = 11
        /\ Cardinality(FirstOfUser(fl)) = 1
        /\ Len(ls) = 10
        /\ ls[1].value = 2
        /\ ValuesUpTo(ls, Len(ls)) = Len(fl) - 1

HoursOf(fl) == {LocalHour(fl[k]) : k \in 1..Len(fl)}

LogsInHour(fl, h) == Cardinality({k \in 1..Len(fl) : LocalHour(fl[k]) = h})

RECURSIVE CountsUpTo(_, _)
\* the counts of the first n entries, added up
CountsUpTo(s, n) == IF n = 0 THEN 0 ELSE s[n].count + CountsUpTo(s, n - 1)

\* C18: timeData has exactly one entry for each hour occurring in
\* filteredLogs, labelled with the hour's two digits ("HH:00"), whose count
\* is the number of filtered logs in that hour; the labels are strictly
\* ascending and the counts add up to the number of filteredLogs.
C18_TimeData ==
    LET td == timeData
        fl == filteredLogs
    IN  /\ Len(td) = Cardinality(HoursOf(fl))
        /\ \A r \in 1..Len(td) :
            \E h \in HoursOf(fl) :
                /\ td[r].time = <<h \div 10, h % 10>>
                /\ td[r].count = LogsInHour(fl, h)
        /\ \A r \in 1..(Len(td) - 1) :
            10 * td[r].time[1] + td[r].time[2]
                < 10 * td[r + 1].time[1] + td[r + 1].time[2]
        /\ CountsUpTo(td, Len(td)) = Len(fl)

\* an hour of one digit with two logs, met after the hour of two digits with
\* one log, comes first as "05:00"
C18_Witness ==
    LET td == timeData
        fl == filteredLogs
    IN  /\ timeFilter = "Morning"
        /\ Len(fl) = 3
        /\ LocalHour(fl[1]) = 11
        /\ Len(td) = 2
        /\ td[1] = [time |-> <<0, 5>>, count |-> 2]
        /\ td[2] = [time |-> <<1, 1>>, count |-> 1]

----------------------------------------------------------------------------
(* Properties of getActivityStatus *)

\* the key the time window gives: upcoming before a valid start, ended after
\* a valid end, active otherwise, full or not
WindowKey(a, t) ==
    IF a.StartDateTime.valid /\ t < a.StartDateTime.t THEN "upcoming"
    ELSE IF a.EndDateTime.valid /\ t > a.EndDateTime.t THEN "ended"
    ELSE "active"

\* C19: an activity whose ManualOverride is "OPEN" has key active and one
\* whose ManualOverride is "CLOSED" has key ended, whatever its start, end,
\* capacity, count and the time are; without override the key is the one the
\* time window gives.
C19_OverrideWins ==
    \A i \in 1..Len(checkInActivities) :
        LET a == checkInActivities[i]
            status == getActivityStatus(a, now)
        IN  /\ a.ManualOverride = "OPEN" => status.key = "active"
            /\ a.ManualOverride = "CLOSED" => status.key = "ended"
            /\ a.ManualOverride = "" => status.key = WindowKey(a, now)
            /\ status.label = "Full" =>
                   (a.Capacity > 0 /\ a.CurrentCount >= a.Capacity)

\* an activity forced open after its end has passed is active, although
\* its window says ended
C19_Witness ==
    \E i \in 1..Len(checkInActivities) :
        LET a == checkInActivities[i]
        IN  /\ a.ManualOverride = "OPEN"
            /\ a.EndDateTime.valid
            /\ a.EndDateTime.t < now
            /\ WindowKey(a, now) = "ended"
            /\ getActivityStatus(a, now).key = "active"

----------------------------------------------------------------------------
(* Properties of the aggregations on empty inputs *)

----------------------------------------------------------------------------
(* Properties of the polling effect and of overlapping fetches *)

\* C22: a background fetch is started only while auto-refresh is on, the user
\* is an administrator and the interval is set; after every step that leaves
\* auto-refresh off or the user no administrator the interval is cleared; a
\* poll that fails starts no fetch of its own.
C22_PollOnlyWhileOn ==
    [][/\ bgPending' > bgPending => (isAutoRefresh /\ isAdmin /\ interval)
       /\ ~(isAutoRefresh' /\ isAdmin') => ~interval'
       /\ fgPending' <= fgPending
       /\ PollRejected => bgPending' = bgPending - 1]_vars

\* auto-refresh was switched off while a poll was in flight: the interval is
\* cleared, the poll still pending
C22_Witness ==
    /\ isAdmin
    /\ ~isAutoRefresh
    /\ ~interval
    /\ bgPending > 0
    /\ fgPending = 0

----------------------------------------------------------------------------
(* Properties of the order of the aggregates *)

\* the position of the activity of that name in the registry
RegistryPos(name) ==
    CHOOSE i \in 1..Len(checkInActivities) : checkInActivities[i].Name = name

\* a log of school n1 comes in fl before every log of school n2
SchoolSeenBefore(fl, n1, n2) ==
    \E k \in 1..Len(fl) :
        /\ GroupedUnder(fl[k], n1)
        /\ \A j \in 1..k : ~GroupedUnder(fl[j], n2)

\* a log at place p1 comes in fl before every log at place p2
PlaceSeenBefore(fl, p1, p2) ==
    \E k \in 1..Len(fl) :
        /\ PlaceOf(fl[k]) = p1
        /\ \A j \in 1..k : PlaceOf(fl[j]) # p2

\* C24: ties keep the first-encountered order: of two activities with equal
\* counts the one registered first comes first in topActivities, and of two
\* schools or two places with equal counts the one met first in filteredLogs
\* comes first in schoolStats or locationStats.
C24_TiesFirstEncountered ==
    LET fl == filteredLogs
        ta == overviewStats.topActivities
        ss == schoolStats
        ls == locationStats
    IN  /\ \A r1, r2 \in 1..Len(ta) :
            (r1 < r2 /\ ta[r1].value = ta[r2].value) =>
                RegistryPos(ta[r1].name) < RegistryPos(ta[r2].name)
        /\ \A r1, r2 \in 1..Len(ss) :
            (r1 < r2 /\ ss[r1].count = ss[r2].count) =>
                SchoolSeenBefore(fl, ss[r1].name, ss[r2].name)
        /\ \A r1, r2 \in 1..Len(ls) :
            (r1 < r2 /\ ls[r1].value = ls[r2].value) =>
                PlaceSeenBefore(fl, ls[r1].name, ls[r2].name)

----------------------------------------------------------------------------
(* Properties of handleToggleStatus *)

\* the override that follows o in the cycle Auto -> OPEN -> CLOSED -> Auto
CycleAfter(o) ==
    CASE o = "" -> "OPEN"
      [] o = "OPEN" -> "CLOSED"
      [] o = "CLOSED" -> ""

----------------------------------------------------------------------------
(* Properties of calculateProgress across log sets *)

\* new is old with one more log, at any position
Grows(old, new) ==
    /\ Len(new) = Len(old) + 1
    /\ \E k \in 1..Len(new) :
        old = SubSeq(new, 1, k - 1) \o SubSeq(new, k + 1, Len(new))

\* no figure of the result `before` is higher than in `after`
NotAbove(before, after) ==
    /\ before.progress <= after.progress
    /\ before.isComplete => after.isComplete
    /\ \A i \in 1..Len(before.reqStatus) :
        /\ before.reqStatus[i].currentVal <= after.reqStatus[i].currentVal
        /\ before.reqStatus[i].achieved => after.reqStatus[i].achieved

\* C26: when the history is reloaded with one more check-in log, for every
\* mission no requirement's currentVal decreases, no achieved requirement
\* becomes not achieved, progress does not decrease and a complete mission
\* stays complete.
C26_Monotone ==
    [][(Grows(userLogs, userLogs') /\ activities' = activities) =>
            \A m \in AnyMission :
                NotAbove(CalcProgress(m, userLogs, activities),
                         CalcProgress(m, userLogs', activities'))]_vars

\* the history holds two logs and a mission that the first log alone left
\* incomplete is complete with the second
C26_Witness ==
    /\ ~loading
    /\ Len(userLogs) = 2
    /\ \E m \in Missions :
        LET before == CalcProgress(m, SubSeq(userLogs, 1, 1), activities)
            after == calculateProgress(m)
        IN  /\ ~before.isComplete
            /\ after.isComplete
            /\ before.progress < after.progress
            /\ \E i \in 1..Len(m.requirements) :
                before.reqStatus[i].currentVal < after.reqStatus[i].currentVal

\* the requirements of m that count logs against a threshold
CountReqs(m) == ReqIdx(m, "total_count") \cup ReqIdx(m, "category_count")

\* C27 as stated: on a mission date without logs of the user, progress is 0
\* and isComplete is false, whatever the non-negative thresholds are.
C27_Original ==
    \A m \in AnyMission :
        OnDateIdx(userLogs, m.date) = {} =>
            /\ calculateProgress(m).progress = 0
            /\ ~calculateProgress(m).isComplete

\* C27 as amended: on a mission date without logs of the user every
\* requirement has currentVal 0, exactly the counting requirements with
\* threshold 0 are achieved and progress is their number; so progress is 0 and
\* isComplete is false when every threshold is positive, and isComplete is
\* true only when every requirement is a counting one with threshold 0.
C27_NoLogsNoProgress ==
    \A m \in AnyMission :
        OnDateIdx(userLogs, m.date) = {} =>
            LET r == calculateProgress(m)
                zero == {i \in CountReqs(m) : m.requirements[i].targetValue <= 0}
            IN  /\ \A i \in 1..Len(r.reqStatus) :
                    /\ r.reqStatus[i].currentVal = 0
                    /\ r.reqStatus[i].achieved <=> i \in zero
                /\ r.progress = Cardinality(zero)
                /\ zero = {} => (r.progress = 0 /\ ~r.isComplete)
                /\ r.isComplete <=> (r.total > 0 /\ Cardinality(zero) = r.total)

\* the user has logs, none of them on the mission's date, and of the
\* mission's two requirements the one with threshold 0 is achieved
C27_Witness ==
    /\ userLogs # <<>>
    /\ \E m \in Missions :
        /\ OnDateIdx(userLogs, m.date) = {}
        /\ Len(m.requirements) = 2
        /\ m.requirements[1].targetValue = 0
        /\ m.requirements[1].type = "total_count"
        /\ m.requirements[2].targetValue > 0
        /\ calculateProgress(m).reqStatus[1].achieved
        /\ calculateProgress(m).progress = 1
        /\ ~calculateProgress(m).isComplete

----------------------------------------------------------------------------
(* LogsTab *)

\* C28: in LogsTab, after filter changes, page clicks and confirmed deletions,
\* currentPage lies in 1..max(1, totalPages), and the displayed page is not
\* empty while filteredLogs is not empty.
C28_PageInRange ==
    /\ currentPage >= 1
    /\ currentPage <= (IF totalPages > 1 THEN totalPages ELSE 1)
    /\ filteredTabLogs # <<>> => paginatedLogs # <<>>

\* C29: in LogsTab, once the getCheckInLogs call of the mount effect has
\* settled, resolved or rejected, isLoadingLogs becomes false in the end.
C29_LoadingEnds ==
    (logsFetch \in {"resolved", "rejected"}) ~> ~isLoadingLogs

----------------------------------------------------------------------------
(* LiveMonitorTab *)

\* the calls in flight whose effect has been cleaned up
StaleCalls(cs, mounted, e) ==
    Len(SelectSeq(cs, LAMBDA c : ~(mounted /\ c.effect = e)))

\* a fetchLogs call of a cleaned-up effect has left the calls in flight
StaleCallSettled ==
    StaleCalls(calls', monitorMounted, effect) < StaleCalls(calls, monitorMounted, effect)

\* C30: in LiveMonitorTab a timer is set only for the effect that has not been
\* cleaned up; a getCheckInLogs call of a cleaned-up effect (unmount or change
\* of the activity registry) changes neither stats nor recentLogs nor the
\* last-seen log id when it settles; recentLogs never holds more than 10 logs.
C30_CleanedUpEffectSilent ==
    /\ [](/\ timers \subseteq (IF monitorMounted THEN {effect} ELSE {})
          /\ Len(recentLogs) <= RecentLimit)
    /\ [][StaleCallSettled => UNCHANGED <<stats, recentLogs, lastLogIdRef>>]_vars

\* a call of a cleaned-up effect has resolved with logs while the monitor
\* shows the first 10 logs of a longer response
C30_Witness ==
    /\ lastFetched.stale
    /\ lastFetched.len > 0
    /\ Len(recentLogs) = RecentLimit
    /\ stats.total > RecentLimit

====
